---- MODULE Spec2Model ----
(***************************************************************************)
(* A model of zune-inflate's DeflateDecoder (src/zune-inflate/src/         *)
(* decoder.rs): decode_zlib / decode_deflate, the block loop, the table    *)
(* builder and the fast and safe symbol loops.                             *)
(*                                                                         *)
(* The bit reader (bitstream.rs), the constants (constants.rs), the        *)
(* helpers (utils.rs) and the error type (errors.rs) are not among the     *)
(* source files; they are modelled from the specification's section 4.1,   *)
(* 3, 4.4, 4.5 and 7.                                                      *)
(*                                                                         *)
(* Words of the program (u8, u32, usize) are modelled as integers.  A      *)
(* table entry is the packed 32-bit word of the program; because the       *)
(* model checker's integers are 31 bits wide, the LITERAL flag sits at     *)
(* bit 30 instead of bit 31: the program only ever tests the flag and      *)
(* truncates the payload of a literal to its low 8 bits.                   *)
(***************************************************************************)
EXTENDS Integers, Sequences, FiniteSets, TLC

VARIABLES
    data,                 \* DeflateDecoder.data: the borrowed input bytes
    position,             \* DeflateDecoder.position
    stream,               \* DeflateDecoder.stream: the bit reader
    is_last_block,        \* DeflateDecoder.is_last_block
    static_codes_loaded,  \* DeflateDecoder.static_codes_loaded
    litlen_decode_table,  \* deflate_header_tables.litlen_decode_table
    offset_decode_table,  \* deflate_header_tables.offset_decode_table
    out_block,            \* the output vector of start_deflate_block
    dest_offset,          \* write cursor into out_block
    src_offset,           \* start of the source of the last match
    length,               \* length of the last match decoded
    offset,               \* offset of the last match decoded
    entry,                \* the table entry the loops carry between symbols
    block_type,           \* BTYPE of the block being decoded
    pc,                   \* where the call is
    api,                  \* which entry point was called
    result,               \* what the call returned, or how it aborted
    build,                \* overflow checks of the build, once they matter
    ev,                   \* what the last step did (history)
    blocks_read,          \* number of block headers read in the call (history)
    calls,                \* number of calls made on the decoder (history)
    inner_lens,           \* build_decode_table_inner called alone: lens
    inner_table,          \* its decode_table
    inner_code,           \* the code it is called for
    inner_st              \* what it returned

\* the decoder and the call on it
decoder_vars ==
    <<data, position, stream, is_last_block, static_codes_loaded,
      litlen_decode_table, offset_decode_table, out_block, dest_offset,
      src_offset, length, offset, entry, block_type, pc, api, result,
      build, ev, blocks_read, calls>>

\* build_decode_table_inner called on its own
inner_vars == <<inner_lens, inner_table, inner_code, inner_st>>

vars == <<decoder_vars, inner_vars>>

-----------------------------------------------------------------------------
(* Constants of decoder.rs *)

FASTCOPY_BITS == 16
RESIZE_BY == 4096
OUT_INITIAL_LEN == 37000
ZLIB_MIN_LEN == 6
ADLER_LEN == 4
SINGLE_PRECODE == 3
SUBTABLE_LIMIT == 15
OFFSET_SUBTABLE_MASK == 511

(* Constants of constants.rs *)

DEFLATE_BLOCKTYPE_UNCOMPRESSED == 0
DEFLATE_BLOCKTYPE_STATIC == 1
DEFLATE_BLOCKTYPE_DYNAMIC_HUFFMAN == 2
DEFLATE_MAX_CODEWORD_LENGTH == 15
DEFLATE_MAX_LITLEN_CODEWORD_LENGTH == 15
DEFLATE_MAX_OFFSET_CODEWORD_LENGTH == 15
DEFLATE_MAX_PRE_CODEWORD_LEN == 7
DEFLATE_NUM_PRECODE_SYMS == 19
DEFLATE_NUM_LITLEN_SYMS == 288
DEFLATE_NUM_OFFSET_SYMS == 32
DEFLATE_MAX_NUM_SYMS == 288
DELFATE_MAX_LENS_OVERRUN == 137
PRECODE_TABLE_BITS == 7
PRECODE_ENOUGH == 128
LITLEN_TABLE_BITS == 11
LITLEN_DECODE_BITS == 11
LITLEN_ENOUGH == 2342
OFFSET_TABLEBITS == 8
OFFSET_ENOUGH == 402
HUFFDEC_LITERAL == 1073741824
HUFFDEC_EXCEPTIONAL == 32768
HUFFDEC_SUITABLE_POINTER == 16384
HUFFDEC_END_OF_BLOCK == 8192
ADLER_MOD == 65521
U8_MOD == 256

DEFLATE_PRECODE_LENS_PERMUTATION ==
    <<16, 17, 18, 0, 8, 7, 9, 6, 10, 5, 11, 4, 12, 3, 13, 2, 14, 1, 15>>

-----------------------------------------------------------------------------
(* Words and bits *)

Pow2(n) == 2 ^ n

Min(a, b) == IF a < b THEN a ELSE b

Max(a, b) == IF a < b THEN b ELSE a

\* x >> n
Shr(x, n) == x \div Pow2(n)

\* x & ((1 << n) - 1)
LowBits(x, n) == x % Pow2(n)

\* (x & flag) != 0, for a flag of one bit
HasFlag(x, flag) == (x \div flag) % 2 = 1

\* x as u8
AsU8(x) == x % U8_MOD

Zeros(n) == [i \in 1..n |-> 0]

BitAt(b, i) == IF i <= Len(b) THEN b[i] ELSE 0

\* the value of the bits i..n of a bit buffer, bit i lowest; the range is
\* halved to keep the evaluation shallow
RECURSIVE BitsValFrom(_, _, _)
BitsValFrom(b, i, n) ==
    IF i > n THEN 0
    ELSE IF i = n THEN BitAt(b, i)
    ELSE LET mid == (i + n) \div 2
         IN  BitsValFrom(b, i, mid)
                 + Pow2(mid - i + 1) * BitsValFrom(b, mid + 1, n)

\* f[lo] + ... + f[hi], the range halved likewise
RECURSIVE SumOver(_, _, _)
SumOver(f, lo, hi) ==
    IF lo > hi THEN 0
    ELSE IF lo = hi THEN f[lo]
    ELSE LET mid == (lo + hi) \div 2
         IN  SumOver(f, lo, mid) + SumOver(f, mid + 1, hi)

\* the value of the n lowest bits of a bit buffer
BitsVal(b, n) == BitsValFrom(b, 1, n)

\* the bits of a byte string, the lowest bit of the first byte first
BytesToBits(bs) ==
    [k \in 1..(8 * Len(bs)) |-> (bs[(k - 1) \div 8 + 1] \div Pow2((k - 1) % 8)) % 2]

-----------------------------------------------------------------------------
(* The bit reader: BitStreamReader, from section 4.1 of the specification.  *)
(* buffer holds the accumulator as its bits, lowest first; bits above the   *)
(* sequence's end are zero.                                                 *)

BitStreamReader_new(start) ==
    [src |-> start, position |-> 0, bits_left |-> 0, buffer |-> <<>>,
     terminal |-> FALSE]

remaining_bytes(s) == Len(data) - s.src - s.position

refill(s) ==
    IF s.bits_left <= 56 /\ remaining_bytes(s) >= 1
    THEN LET k    == Min(8, remaining_bytes(s))
             from == s.src + s.position
             new  == BytesToBits(SubSeq(data, from + 1, from + k))
             kept == SubSeq(s.buffer, 1, Min(Len(s.buffer), s.bits_left))
         IN  [s EXCEPT !.buffer = kept \o Zeros(s.bits_left - Len(kept)) \o new,
                       !.position = s.position + k,
                       !.bits_left = s.bits_left + 8 * k,
                       !.terminal = k < 8]
    ELSE s

peek_bits(s, n) == BitsVal(s.buffer, n)

peek_var_bits(s, n) == BitsVal(s.buffer, n)

has(s, n) == s.bits_left >= n

\* bits_left is a u8: dropping more bits than are left overflows the
\* subtraction; a build without overflow checks wraps it
drop_overflows(s, n) == n > s.bits_left

drop_bits(s, n) ==
    [s EXCEPT !.buffer = SubSeq(s.buffer, n + 1, Len(s.buffer)),
              !.bits_left = (s.bits_left - n) % U8_MOD]

get_bits_left(s) == s.bits_left

get_position(s) == s.position - Shr(s.bits_left, 3)

reset(s) == [s EXCEPT !.buffer = <<>>, !.bits_left = 0]

-----------------------------------------------------------------------------
(* calc_adler_hash, from section 4.5 of the specification *)

\* <<s2, s1>> after the bytes lo..hi (in order) are added to a = <<s2, s1>>;
\* the range is halved to keep the evaluation shallow
RECURSIVE AdlerRange(_, _, _, _)
AdlerRange(bytes, lo, hi, a) ==
    IF lo > hi THEN a
    ELSE IF lo = hi
    THEN LET n1 == (a[2] + bytes[lo]) % ADLER_MOD
         IN  <<(a[1] + n1) % ADLER_MOD, n1>>
    ELSE LET mid  == (lo + hi) \div 2
             left == AdlerRange(bytes, lo, mid, a)
         IN  IF left[1] >= 0 THEN AdlerRange(bytes, mid + 1, hi, left) ELSE left

\* the checksum (s2 << 16) | s1 as its four big-endian bytes
calc_adler_hash(bytes) ==
    LET a == AdlerRange(bytes, 1, Len(bytes), <<0, 1>>)
    IN  <<a[1] \div 256, a[1] % 256, a[2] \div 256, a[2] % 256>>

-----------------------------------------------------------------------------
(* The precomputed decode results (constants.rs) and the entry maker        *)
(* (utils.rs).  An entry is payload << 16 | flags | field << 8 | bits; for   *)
(* a length or an offset symbol the field holds the codeword's length and    *)
(* the low byte the codeword's length plus the number of extra bits, which   *)
(* is what the loops' `(saved_bitbuf & mask) >> ((entry >> 8) as u8)` reads. *)

LengthBase ==
    <<3, 4, 5, 6, 7, 8, 9, 10, 11, 13, 15, 17, 19, 23, 27, 31, 35, 43, 51, 59,
      67, 83, 99, 115, 131, 163, 195, 227, 258, 258, 258>>

LengthExtra ==
    <<0, 0, 0, 0, 0, 0, 0, 0, 1, 1, 1, 1, 2, 2, 2, 2, 3, 3, 3, 3,
      4, 4, 4, 4, 5, 5, 5, 5, 0, 0, 0>>

OffsetBase ==
    <<1, 2, 3, 4, 5, 7, 9, 13, 17, 25, 33, 49, 65, 97, 129, 193, 257, 385,
      513, 769, 1025, 1537, 2049, 3073, 4097, 6145, 8193, 12289, 16385, 24577,
      24577, 24577>>

OffsetExtra ==
    <<0, 0, 0, 0, 1, 1, 2, 2, 3, 3, 4, 4, 5, 5, 6, 6, 7, 7,
      8, 8, 9, 9, 10, 10, 11, 11, 12, 12, 13, 13, 13, 13>>

\* indexed by symbol + 1
LITLEN_DECODE_RESULTS ==
    [s \in 1..DEFLATE_NUM_LITLEN_SYMS |->
        IF s <= 256 THEN HUFFDEC_LITERAL + (s - 1) * 65536
        ELSE IF s = 257 THEN HUFFDEC_EXCEPTIONAL + HUFFDEC_END_OF_BLOCK
        ELSE LengthBase[s - 257] * 65536 + LengthExtra[s - 257]]

OFFSET_DECODE_RESULTS ==
    [s \in 1..DEFLATE_NUM_OFFSET_SYMS |-> OffsetBase[s] * 65536 + OffsetExtra[s]]

PRECODE_DECODE_RESULTS ==
    [s \in 1..DEFLATE_NUM_PRECODE_SYMS |-> (s - 1) * 65536]

make_decode_table_entry(decode_results, sym, len) ==
    decode_results[sym + 1] + len * 256 + len

-----------------------------------------------------------------------------
(* build_decode_table_inner.  A table is the sequence of its slots: slot j   *)
(* of the program is element j + 1.  The result is [st, t]: st is "Ok", an   *)
(* error of the program, or a panic.                                         *)

ERR_OVERFLOWN == "Generic: Overflown code"
ERR_EMPTY_PRECODE == "Generic: Cannot work with empty pre-code table"
ERR_CORRUPT == "CorruptData"
ERR_INSUFFICIENT == "InsufficientData"
PANIC_INDEX == "panic: index out of bounds"
PANIC_OVERFLOW == "panic: arithmetic overflow"
PANIC_ADLER == "panic: assertion failed: adler32_expected == adler32_found"

\* len_counts after the loop over 0..num_syms
LenCounts(lens, num_syms) ==
    [l \in 0..DEFLATE_MAX_CODEWORD_LENGTH |->
        Cardinality({s \in 1..num_syms : lens[s] = l})]

\* the loop that lowers max_codeword_len while no symbol has that length
ReduceMaxLen(len_counts, max_codeword_len) ==
    LET used == {l \in 2..max_codeword_len : len_counts[l] # 0}
    IN  IF used = {} THEN Min(1, max_codeword_len)
        ELSE CHOOSE l \in used : \A k \in used : k <= l

\* offsets[] after the loop over 1..max_codeword_len:
\* offsets[len + 1] = offsets[len] + len_counts[len], from offsets[1] =
\* len_counts[0]
InitialOffsets(len_counts, max_codeword_len) ==
    [l \in 0..DEFLATE_MAX_CODEWORD_LENGTH |->
        IF l >= 1 /\ l <= max_codeword_len
        THEN len_counts[0] + SumOver(len_counts, 1, l - 1) ELSE 0]

\* codespace_used after the same loop and the statement that follows it:
\* codespace_used = (codespace_used << 1) + len_counts[len] for every len
CodespaceUsed(len_counts, max_codeword_len) ==
    SumOver([l \in 1..max_codeword_len |->
                len_counts[l] * Pow2(max_codeword_len - l)],
            1, max_codeword_len)

\* the sorting loop: [sorted, offs] after the symbols lo..hi-1 are placed, in
\* this order; the range is halved to keep the evaluation shallow
RECURSIVE SortSyms(_, _, _, _)
SortSyms(lens, lo, hi, acc) ==
    IF lo >= hi THEN acc
    ELSE IF hi = lo + 1
    THEN LET pos == lens[lo + 1]
         IN  [sorted |-> [acc.sorted EXCEPT ![acc.offs[pos] + 1] = lo],
              offs   |-> [acc.offs EXCEPT ![pos] = acc.offs[pos] + 1]]
    ELSE LET mid  == (lo + hi) \div 2
             left == SortSyms(lens, lo, mid, acc)
         IN  IF left.offs[0] >= 0 THEN SortSyms(lens, mid, hi, left) ELSE left

\* 1 << (BITS - x.leading_zeros()): the highest set bit of x, x > 0
HighestBit(x) ==
    Pow2(CHOOSE k \in 0..(DEFLATE_MAX_CODEWORD_LENGTH + 1) :
             Pow2(k) <= Max(x, 1) /\ Max(x, 1) < Pow2(k + 1))

\* a variant of the increment below that counts without reversing the bits
NextCodeword_plain(codeword, mask) == (codeword + 1) % (mask + 1)

\* the next codeword: codeword ^ mask is mask - codeword as codeword <= mask
NextCodeword(codeword, mask) ==
    LET bit == HighestBit(mask - codeword)
    IN  (codeword % bit) + bit

\* a variant of the copies below that leaves the table as it is
Doublings_none(t, curr_table_end, n) == t

\* n times: copy_within(0..curr_table_end, curr_table_end), curr_table_end
\* doubled
Doublings(t, curr_table_end, n) ==
    IF n <= 0 THEN t
    ELSE [j \in 1..Len(t) |->
             IF j <= curr_table_end * Pow2(n)
             THEN t[((j - 1) % curr_table_end) + 1] ELSE t[j]]

\* the first `while count == 0` loop: the first length to process
FirstLen(len_counts, len) ==
    LET used == {l \in len..DEFLATE_MAX_CODEWORD_LENGTH : len_counts[l] # 0}
    IN  IF used = {} THEN DEFLATE_MAX_CODEWORD_LENGTH + 1
        ELSE CHOOSE l \in used : \A k \in used : l <= k

SymAt(c, i) == IF i < DEFLATE_MAX_NUM_SYMS THEN c.sorted[i + 1] ELSE -1

\* one iteration of the loop over the codewords of one length <= table_bits
PrimaryCodeword(c, b) ==
    IF SymAt(c, b.i) < 0 \/ b.codeword >= Len(b.t)
    THEN [b EXCEPT !.st = PANIC_INDEX]
    ELSE
    LET e  == make_decode_table_entry(c.results, SymAt(c, b.i), b.len)
        t1 == [b.t EXCEPT ![b.codeword + 1] = e]
    IN  IF b.codeword = b.cte - 1
        THEN [b EXCEPT !.st = "Ok", !.i = b.i + 1,
                       !.t = Doublings(t1, b.cte, c.table_bits - b.len)]
        ELSE [b EXCEPT !.t = t1, !.i = b.i + 1,
                       !.codeword = NextCodeword(b.codeword, b.cte - 1),
                       !.count = b.count - 1]

\* up to n iterations of that loop, which ends when count reaches 0 or the
\* function returns; n is halved to keep the evaluation shallow
RECURSIVE PrimaryCodewords(_, _, _)
PrimaryCodewords(c, b, n) ==
    IF n <= 1 THEN PrimaryCodeword(c, b)
    ELSE LET h == PrimaryCodewords(c, b, n \div 2)
         IN  IF h.st # "run" \/ h.count = 0 THEN h
             ELSE PrimaryCodewords(c, h, n - n \div 2)

\* the loop that advances to the next codeword length: len += 1, the
\* table doubled while len <= table_bits, until len_counts[len] != 0
AdvanceLen(c, b) ==
    LET len1 == FirstLen(c.len_counts, b.len + 1)
        n    == Max(Min(len1, c.table_bits) - b.len, 0)
        b1   == [b EXCEPT !.len = len1, !.t = Doublings(b.t, b.cte, n),
                          !.cte = b.cte * Pow2(n)]
    IN  IF len1 > DEFLATE_MAX_CODEWORD_LENGTH
        THEN [b1 EXCEPT !.st = PANIC_INDEX]
        ELSE [b1 EXCEPT !.count = c.len_counts[len1]]

\* one iteration of `while len <= table_bits`
PrimaryLength(c, b) ==
    LET b1 == PrimaryCodewords(c, b, b.count)
    IN  IF b1.st # "run" THEN b1 ELSE AdvanceLen(c, b1)

\* up to n iterations of it; n is halved to keep the evaluation shallow
RECURSIVE PrimaryLoop(_, _, _)
PrimaryLoop(c, b, n) ==
    IF b.st # "run" \/ b.len > c.table_bits THEN b
    ELSE IF n <= 1 THEN PrimaryLength(c, b)
    ELSE LET h == PrimaryLoop(c, b, n \div 2)
         IN  IF h.st # "run" THEN h ELSE PrimaryLoop(c, h, n - n \div 2)

\* a variant of the loop below that leaves the subtable at its first width
GrowSubtable_fixed(c, subtable_bits, codespace_used) == subtable_bits

\* the subtable's width: the `while codespace_used < (1 << subtable_bits)` loop
RECURSIVE GrowSubtable(_, _, _)
GrowSubtable(c, subtable_bits, codespace_used) ==
    IF codespace_used < Pow2(subtable_bits)
    THEN IF subtable_bits + 1 + c.table_bits > SUBTABLE_LIMIT
         THEN -1
         ELSE GrowSubtable(c, subtable_bits + 1,
                  2 * codespace_used + c.len_counts[c.table_bits + subtable_bits + 1])
    ELSE subtable_bits

\* while j < curr_table_end { decode_table[j] = entry; j += stride }: the
\* slots j, j + stride, ... below curr_table_end are written in this order, and
\* the write of a slot at or past the table's end aborts
FillSubtable(t, j, stride, curr_table_end, e) ==
    LET hit(k) == k >= j /\ k < curr_table_end /\ (k - j) % stride = 0
    IN  [ok |-> ~(\E k \in Len(t)..(curr_table_end - 1) : hit(k)),
         t  |-> [k \in 1..Len(t) |-> IF hit(k - 1) THEN e ELSE t[k]]]

\* a variant of the loop below that takes the next length after every
\* codeword
NextLongLen_every(c, len, count) ==
    IF len + 1 > DEFLATE_MAX_CODEWORD_LENGTH
    THEN [len |-> len + 1, count |-> -1]
    ELSE [len |-> len + 1, count |-> c.len_counts[len + 1]]

\* while count == 0 { len += 1; count = len_counts[len] }
NextLongLen(c, len, count) ==
    LET len1 == FirstLen(c.len_counts, len + 1)
    IN  IF count # 0 THEN [len |-> len, count |-> count]
        ELSE IF len1 > DEFLATE_MAX_CODEWORD_LENGTH
        THEN [len |-> len1, count |-> -1]
        ELSE [len |-> len1, count |-> c.len_counts[len1]]

\* one iteration of the loop over the codewords longer than table_bits
SubtableCodeword(c, b) ==
    LET prefix == b.codeword % Pow2(c.table_bits)
        fresh  == prefix # b.subtable_prefix
        bits   == GrowSubtable(c, b.len - c.table_bits, b.count)
        start  == IF fresh THEN b.cte ELSE b.subtable_start
        cte    == IF fresh THEN start + Pow2(bits) ELSE b.cte
        t1     == IF fresh
                  THEN [b.t EXCEPT ![prefix + 1] =
                            start * 65536 + HUFFDEC_EXCEPTIONAL
                            + HUFFDEC_SUITABLE_POINTER + bits * 256 + c.table_bits]
                  ELSE b.t
        stride == Pow2(b.len - c.table_bits)
        filled == FillSubtable(t1, start + Shr(b.codeword, c.table_bits), stride,
                      cte,
                      make_decode_table_entry(c.results, SymAt(c, b.i),
                                              b.len - c.table_bits))
        nxt    == NextLongLen(c, b.len, b.count - 1)
    IN  IF fresh /\ bits < 0 THEN [b EXCEPT !.st = ERR_CORRUPT]
        ELSE IF SymAt(c, b.i) < 0 \/ ~filled.ok
        THEN [b EXCEPT !.st = PANIC_INDEX, !.t = filled.t]
        ELSE IF b.codeword = Pow2(b.len) - 1
        THEN [b EXCEPT !.st = "Ok", !.t = filled.t, !.i = b.i + 1, !.cte = cte,
                       !.subtable_prefix = prefix, !.subtable_start = start]
        ELSE IF nxt.count < 0
        THEN [b EXCEPT !.st = PANIC_INDEX, !.t = filled.t]
        ELSE [b EXCEPT !.t = filled.t, !.i = b.i + 1, !.cte = cte,
                       !.subtable_prefix = prefix, !.subtable_start = start,
                       !.codeword = NextCodeword(b.codeword, Pow2(b.len) - 1),
                       !.len = nxt.len, !.count = nxt.count]

\* up to n iterations of that loop, which ends when the function returns; each
\* iteration takes one symbol of sorted_syms; n is halved to keep the
\* evaluation shallow
RECURSIVE SubtableLoop(_, _, _)
SubtableLoop(c, b, n) ==
    IF b.st # "run" THEN b
    ELSE IF n <= 1 THEN SubtableCodeword(c, b)
    ELSE LET h == SubtableLoop(c, b, n \div 2)
         IN  IF h.st # "run" THEN h ELSE SubtableLoop(c, h, n - n \div 2)

\* the part of build_decode_table_inner that fills the table of a complete code
FillCompleteCode(c, decode_table) ==
    LET len == FirstLen(c.len_counts, 1)
        b0  == [st |-> "run", t |-> decode_table, codeword |-> 0, len |-> len,
                count |-> IF len <= DEFLATE_MAX_CODEWORD_LENGTH
                          THEN c.len_counts[len] ELSE 0,
                i |-> c.first, cte |-> Pow2(len),
                subtable_prefix |-> -1, subtable_start |-> 0]
        b1  == PrimaryLoop(c, b0, c.table_bits)
    IN  IF b1.st # "run" THEN b1
        ELSE SubtableLoop(c, [b1 EXCEPT !.cte = Pow2(c.table_bits)],
                          DEFLATE_MAX_NUM_SYMS + 1)

build_decode_table_inner(lens, decode_results, decode_table, table_bits, num_syms, max_codeword_len) ==
    LET len_counts == LenCounts(lens, num_syms)
        max_len    == ReduceMaxLen(len_counts, max_codeword_len)
        used       == CodespaceUsed(len_counts, max_len)
        sorted     == SortSyms(lens, 0, num_syms,
                          [sorted |-> Zeros(DEFLATE_MAX_NUM_SYMS),
                           offs   |-> InitialOffsets(len_counts, max_len)])
        c          == [len_counts |-> len_counts, sorted |-> sorted.sorted,
                       first |-> sorted.offs[0], results |-> decode_results,
                       table_bits |-> table_bits]
    IN  IF used > Pow2(max_len)
        THEN [st |-> ERR_OVERFLOWN, t |-> decode_table]
        ELSE IF used < Pow2(max_len)
        THEN IF used = 0
             THEN [st |-> "Ok",
                   t  |-> [j \in 1..Len(decode_table) |->
                              make_decode_table_entry(decode_results, 0, 1)]]
             ELSE IF used # Pow2(max_len) \/ len_counts[1] # 1
             THEN [st |-> ERR_EMPTY_PRECODE, t |-> decode_table]
             ELSE [st |-> "Ok",
                   t  |-> [j \in 1..Len(decode_table) |->
                              make_decode_table_entry(decode_results,
                                  SymAt(c, c.first), 1)]]
        ELSE LET b == FillCompleteCode(c, decode_table)
             IN  [st |-> b.st, t |-> b.t]

\* the code lengths of a static block
StaticLens ==
    [s \in 1..(DEFLATE_NUM_LITLEN_SYMS + DEFLATE_NUM_OFFSET_SYMS
                + DELFATE_MAX_LENS_OVERRUN) |->
        IF s <= 144 THEN 8 ELSE IF s <= 256 THEN 9 ELSE IF s <= 280 THEN 7
        ELSE IF s <= 288 THEN 8 ELSE 5]

\* the tables a static block builds once, and the ones built for a block type
\* that is neither dynamic nor static (lens all 0, no symbols)
StaticOffsetTable ==
    build_decode_table_inner(
        SubSeq(StaticLens, DEFLATE_NUM_LITLEN_SYMS + 1, Len(StaticLens)),
        OFFSET_DECODE_RESULTS, Zeros(OFFSET_ENOUGH), OFFSET_TABLEBITS,
        DEFLATE_NUM_OFFSET_SYMS, DEFLATE_MAX_OFFSET_CODEWORD_LENGTH)

StaticLitlenTable ==
    build_decode_table_inner(StaticLens, LITLEN_DECODE_RESULTS,
        Zeros(LITLEN_ENOUGH), LITLEN_TABLE_BITS, DEFLATE_NUM_LITLEN_SYMS,
        DEFLATE_MAX_LITLEN_CODEWORD_LENGTH)

NoSymsOffsetTable ==
    build_decode_table_inner(Zeros(Len(StaticLens)), OFFSET_DECODE_RESULTS,
        Zeros(OFFSET_ENOUGH), OFFSET_TABLEBITS, 0,
        DEFLATE_MAX_OFFSET_CODEWORD_LENGTH)

NoSymsLitlenTable ==
    build_decode_table_inner(Zeros(Len(StaticLens)), LITLEN_DECODE_RESULTS,
        Zeros(LITLEN_ENOUGH), LITLEN_TABLE_BITS, 0,
        DEFLATE_MAX_LITLEN_CODEWORD_LENGTH)

-----------------------------------------------------------------------------
(* build_decode_table: the header of a dynamic block *)

\* self.stream.get_bits(n): [v, s]
get_bits(s, n) == [v |-> peek_bits(s, n), s |-> drop_bits(s, n)]

\* the loop over DEFLATE_PRECODE_LENS_PERMUTATION[1..].take(n - 1): the k-th
\* symbol of the permutation gets the k-th field of 3 bits
ReadPrecodeLens(s, first_precode, n) ==
    LET place(sym) == CHOOSE k \in 1..DEFLATE_NUM_PRECODE_SYMS :
                          DEFLATE_PRECODE_LENS_PERMUTATION[k] = sym
    IN  [s |-> drop_bits(s, SINGLE_PRECODE * (n - 1)),
         precode_lens |->
            [j \in 1..DEFLATE_NUM_PRECODE_SYMS |->
                IF place(j - 1) = 1 THEN first_precode
                ELSE IF place(j - 1) <= n
                THEN BitsValFrom(s.buffer,
                         SINGLE_PRECODE * (place(j - 1) - 2) + 1,
                         SINGLE_PRECODE * (place(j - 1) - 1))
                ELSE 0]]

\* lens[from..to].fill(v)
FillLens(lens, from, to, v) ==
    [k \in 1..Len(lens) |-> IF k > from /\ k <= to THEN v ELSE lens[k]]

\* one iteration of the loop that decodes the litlen and offset codeword
\* lengths; d = [st, s, lens, i]
LensStep(precode_decode_table, d) ==
    LET s1     == IF ~has(d.s, DEFLATE_MAX_PRE_CODEWORD_LEN + 7)
                  THEN refill(d.s) ELSE d.s
        e      == precode_decode_table[
                      peek_bits(s1, DEFLATE_MAX_PRE_CODEWORD_LEN) + 1]
        presym == Shr(e, 16)
        s2     == drop_bits(s1, AsU8(e))
    IN  IF ~has(s1, AsU8(e)) THEN [d EXCEPT !.st = ERR_INSUFFICIENT, !.s = s1]
        ELSE IF presym < 16
        THEN [d EXCEPT !.s = s2, !.lens[d.i + 1] = presym, !.i = d.i + 1]
        ELSE IF presym = 16
        THEN IF d.i = 0 THEN [d EXCEPT !.st = ERR_CORRUPT, !.s = s2]
             ELSE IF ~has(s2, 2) THEN [d EXCEPT !.st = ERR_INSUFFICIENT, !.s = s2]
             ELSE LET g == get_bits(s2, 2)
                  IN  [d EXCEPT !.s = g.s,
                                !.lens = FillLens(d.lens, d.i, d.i + 6, d.lens[d.i]),
                                !.i = d.i + 3 + g.v]
        ELSE IF presym = 17
        THEN IF ~has(s2, 3) THEN [d EXCEPT !.st = ERR_INSUFFICIENT, !.s = s2]
             ELSE LET g == get_bits(s2, 3)
                  IN  [d EXCEPT !.s = g.s,
                                !.lens = FillLens(d.lens, d.i, d.i + 10, 0),
                                !.i = d.i + 3 + g.v]
        ELSE IF ~has(s2, 7) THEN [d EXCEPT !.st = ERR_INSUFFICIENT, !.s = s2]
             ELSE LET g == get_bits(s2, 7)
                  IN  [d EXCEPT !.s = g.s,
                                !.lens = FillLens(d.lens, d.i, d.i + 11 + g.v, 0),
                                !.i = d.i + 11 + g.v]

\* up to n iterations of that loop, which ends when i reaches total or the
\* function returns; n is halved to keep the evaluation shallow
RECURSIVE LensLoop(_, _, _, _)
LensLoop(precode_decode_table, d, total, n) ==
    IF d.st # "run" \/ d.i >= total THEN d
    ELSE IF n <= 1 THEN LensStep(precode_decode_table, d)
    ELSE LensLoop(precode_decode_table,
                  LensLoop(precode_decode_table, d, total, n \div 2),
                  total, n - n \div 2)

\* the result of ReadDynamicHeader where it returns the error st
DynamicFail(st, sx) ==
    [st |-> st, s |-> sx, lens |-> <<>>, num_litlen_syms |-> 0,
     num_offset_syms |-> 0, precode_lens |-> <<>>]

\* lines 823-827: the result once the loop over the lengths ended as d
DynamicLensRead(num_litlen_syms, num_offset_syms, pl, d) ==
    IF d.st # "run" THEN DynamicFail(d.st, d.s)
    ELSE [st |-> "Ok", s |-> d.s, lens |-> d.lens,
          num_litlen_syms |-> num_litlen_syms,
          num_offset_syms |-> num_offset_syms,
          precode_lens |-> pl.precode_lens]

\* lines 720-827: the lengths are decoded with the precode table built as pre
DynamicLens(num_litlen_syms, num_offset_syms, pl, pre) ==
    IF pre.st # "Ok" THEN DynamicFail(pre.st, pl.s)
    ELSE DynamicLensRead(num_litlen_syms, num_offset_syms, pl,
             LensLoop(pre.t,
                 [st |-> "run", s |-> pl.s, i |-> 0,
                  lens |-> Zeros(Len(StaticLens))],
                 num_litlen_syms + num_offset_syms,
                 DEFLATE_NUM_LITLEN_SYMS + DEFLATE_NUM_OFFSET_SYMS))

\* lines 711-718: the precode table of the precode lengths read as pl
DynamicPrecodeTable(num_litlen_syms, num_offset_syms, pl) ==
    DynamicLens(num_litlen_syms, num_offset_syms, pl,
        build_decode_table_inner(pl.precode_lens, PRECODE_DECODE_RESULTS,
            Zeros(PRECODE_ENOUGH), PRECODE_TABLE_BITS,
            DEFLATE_NUM_PRECODE_SYMS, DEFLATE_MAX_CODEWORD_LENGTH))

\* lines 683-709: the precode lengths, read from the refilled reader s3
DynamicPrecode(num_litlen_syms, num_offset_syms, num_explicit_precode_lens, s3) ==
    LET g4 == get_bits(s3, 3)
        expected == AsU8(SINGLE_PRECODE * Max(num_explicit_precode_lens - 1, 0))
        s4 == refill(g4.s)
    IN  IF ~has(s3, 3) THEN DynamicFail(ERR_INSUFFICIENT, s3)
        ELSE IF ~has(s4, expected) THEN DynamicFail(ERR_INSUFFICIENT, s4)
        ELSE DynamicPrecodeTable(num_litlen_syms, num_offset_syms,
                 ReadPrecodeLens(s4, g4.v, num_explicit_precode_lens))

\* lines 665-828: the header of a dynamic block, read from the reader s:
\* [st, s, lens, num_litlen_syms, num_offset_syms, precode_lens]
ReadDynamicHeader(s) ==
    LET g1 == get_bits(s, 5)
        g2 == get_bits(g1.s, 5)
        g3 == get_bits(g2.s, 4)
    IN  IF ~has(s, 5 + 5 + 4) THEN DynamicFail(ERR_INSUFFICIENT, s)
        ELSE DynamicPrecode(257 + g1.v, 1 + g2.v, 4 + g3.v, refill(g3.s))

\* the result of build_decode_table that leaves the tables as they are
TablesKept(st, sx, ld, litlen, offs) ==
    [st |-> st, s |-> sx, static_codes_loaded |-> ld,
     litlen |-> litlen, offset |-> offs]

\* lines 847-869: the result where build_decode_table_inner returned ob for
\* the offset code and lb for the litlen code
TablesBuilt(sx, ld, ob, lb, litlen, offs) ==
    IF ob.st # "Ok" THEN TablesKept(ob.st, sx, ld, litlen, offs)
    ELSE IF lb.st # "Ok" THEN TablesKept(lb.st, sx, ld, litlen, offs)
    ELSE [st |-> "Ok", s |-> sx, static_codes_loaded |-> ld,
          litlen |-> lb.t, offset |-> ob.t]

\* the tables of the dynamic block whose header was read as h
DynamicTables(h, litlen, offs) ==
    IF h.st # "Ok" THEN TablesKept(h.st, h.s, FALSE, litlen, offs)
    ELSE TablesBuilt(h.s, FALSE,
             build_decode_table_inner(
                 SubSeq(h.lens, h.num_litlen_syms + 1, Len(h.lens)),
                 OFFSET_DECODE_RESULTS, Zeros(OFFSET_ENOUGH),
                 OFFSET_TABLEBITS, h.num_offset_syms,
                 DEFLATE_MAX_OFFSET_CODEWORD_LENGTH),
             build_decode_table_inner(h.lens, LITLEN_DECODE_RESULTS,
                 Zeros(LITLEN_ENOUGH), LITLEN_TABLE_BITS,
                 h.num_litlen_syms, DEFLATE_MAX_LITLEN_CODEWORD_LENGTH),
             litlen, offs)

\* build_decode_table(block_type) on the reader s and the instance's tables:
\* [st, s, static_codes_loaded, litlen, offset]
build_decode_table(bt, s, loaded, litlen, offs) ==
    IF bt = DEFLATE_BLOCKTYPE_DYNAMIC_HUFFMAN
    THEN DynamicTables(ReadDynamicHeader(s), litlen, offs)
    ELSE IF bt = DEFLATE_BLOCKTYPE_STATIC
    THEN IF loaded THEN TablesKept("Ok", s, loaded, litlen, offs)
         ELSE TablesBuilt(s, TRUE, StaticOffsetTable, StaticLitlenTable,
                          litlen, offs)
    ELSE TablesBuilt(s, loaded, NoSymsOffsetTable, NoSymsLitlenTable,
                     litlen, offs)

-----------------------------------------------------------------------------
(* The output vector.  out_block is [len, bytes]: len is Vec::len(), bytes   *)
(* the first elements of the vector, up to the highest one written with a    *)
(* byte other than 0 or written below it; the elements above are 0, the      *)
(* zeros resize() put there or zeros written over them.                      *)

ERR_LEN_NLEN == "Generic: Len and nlen do not match"
ERR_CM_15 ==
    "Generic: CM of 15 is preserved by the standard,currently don't know how to handle it"
ERR_UNKNOWN_CM == "GenericStr: Unknown zlib compression method"
ERR_CINFO == "GenericStr: Unknown cinfo greater than 7, not allowed"
ERR_FCHECK == "Generic: FCHECK integrity not preserved"
\* the error the specification names for a trailer that disagrees
ERR_CHECKSUM_MISMATCH == "ChecksumMismatch"

\* vec![0; n]
NewVec(n) == [len |-> n, bytes |-> <<>>]

OutGet(o, i) == IF i >= 0 /\ i < Len(o.bytes) THEN o.bytes[i + 1] ELSE 0

\* the n elements from index from on
OutSlice(o, from, n) == [k \in 1..n |-> OutGet(o, from + k - 1)]

\* the elements at.. are overwritten with bs; zeros written above bytes
\* leave the representation as it is
OutPut(o, at, bs) ==
    IF at >= Len(o.bytes) /\ \A k \in 1..Len(bs) : bs[k] = 0 THEN o
    ELSE
    [o EXCEPT !.bytes =
        SubSeq(o.bytes, 1, Min(at, Len(o.bytes)))
            \o Zeros(at - Len(o.bytes))
            \o bs
            \o SubSeq(o.bytes, at + Len(bs) + 1, Len(o.bytes))]

\* out_block.resize(new_len, 0), growing
resize(o, new_len) == [o EXCEPT !.len = new_len]

\* a variant of the truncation below that keeps one byte of the slack
truncate_slack(o, n) == OutSlice(o, 0, Min(n + 1, o.len))

\* out_block.truncate(n): the vector as the sequence of its first n bytes
truncate(o, n) == OutSlice(o, 0, Min(n, o.len))

resize_and_push(buf, pos, elm) ==
    OutPut(IF buf.len <= pos THEN resize(buf, buf.len + RESIZE_BY) ELSE buf,
           pos, <<elm>>)

\* const_copy::<N, false>: N bytes of the vector from index from to index to
\* (an unchecked block copy of the bytes as they are before the copy)
const_copy(n, o, from, to) == OutPut(o, to, OutSlice(o, from, n))

\* copy_rep_matches: byte by byte, forwards, so that a byte written earlier
\* in the same copy is read again when the ranges overlap
copy_rep_matches(o, from, to, n) ==
    IF to <= from THEN const_copy(n, o, from, to)
    ELSE OutPut(o, to, [k \in 1..n |-> OutGet(o, from + ((k - 1) % (to - from)))])

\* the bytes the RLE loop writes: strides of 8 until bytes_written > length
RleLen(len) == 8 * (len \div 8 + 1)

\* the bytes the unconditional copy and the 'match_lengths loop write
ChunkedLen(len) == FASTCOPY_BITS * (len \div FASTCOPY_BITS + 1)

\* loop { const_copy::<N_BYTES>(.., bytes_written); bytes_written += N_BYTES;
\* if bytes_written > length { break } }: the bytes the RLE loop has written
\* when it ends
RECURSIVE RleLoop(_, _)
RleLoop(len, bytes_written) ==
    IF bytes_written + 8 > len THEN bytes_written + 8
    ELSE RleLoop(len, bytes_written + 8)

\* the 'match_lengths loop: dest_dst_offset when it ends, the offset from
\* dest_offset up to which the chunks were written
RECURSIVE MatchLengthsLoop(_, _)
MatchLengthsLoop(ml_copy, dest_dst_offset) ==
    IF ml_copy < 2 * FASTCOPY_BITS THEN dest_dst_offset + FASTCOPY_BITS
    ELSE MatchLengthsLoop(Max(ml_copy - FASTCOPY_BITS, 0),
                          dest_dst_offset + FASTCOPY_BITS)

\* a variant of the test below that never resizes
EnsureSlack_none(o, dest, len) == o

\* if dest_offset + length + FASTCOPY_BITS > out_block.len() { resize }
EnsureSlack(o, dest, len) ==
    IF dest + len + FASTCOPY_BITS > o.len
    THEN resize(o, o.len + RESIZE_BY + len) ELSE o

\* a variant of the copy below without the branch for a match that
\* overlaps its source
FastCopy_no_overlap(o, src, dest, len, off) ==
    LET o1 == const_copy(FASTCOPY_BITS, o, src, dest)
    IN  IF off = 1
        THEN OutPut(o1, dest, [k \in 1..RleLen(len) |-> OutGet(o1, src)])
        ELSE IF len > FASTCOPY_BITS
        THEN const_copy(ChunkedLen(len), o, src, dest)
        ELSE o1

\* the copy of a match in the fast loop
FastCopy(o, src, dest, len, off) ==
    LET o1 == const_copy(FASTCOPY_BITS, o, src, dest)
    IN  IF off = 1
        THEN OutPut(o1, dest, [k \in 1..RleLen(len) |-> OutGet(o1, src)])
        ELSE IF src + len + FASTCOPY_BITS > dest
        THEN copy_rep_matches(o1, src, dest, len)
        ELSE IF len > FASTCOPY_BITS
        THEN const_copy(ChunkedLen(len), o, src, dest)
        ELSE o1

\* the copy of a match in the safe loop
SafeCopy(o, src, dest, len) ==
    IF src + len + FASTCOPY_BITS > dest
    THEN copy_rep_matches(o, src, dest, len)
    ELSE const_copy(len, o, src, dest)

\* a variant of the test below that lets offset = dest_offset + 1 through
OffsetBeyondOutput_late(off, dest) == off > dest + 1

\* if offset > dest_offset { return Err(CorruptData) }
OffsetBeyondOutput(off, dest) == off > dest

\* base + ((saved_bitbuf & ((1 << entry as u8) - 1)) >> ((entry >> 8) as u8))
BaseAndExtra(e, saved) ==
    Shr(e, 16) + BitsValFrom(saved, AsU8(Shr(e, 8)) + 1, AsU8(e))

\* table[idx], or -1 where the index is out of the array
Lookup(table, idx) ==
    IF idx >= 0 /\ idx < Len(table) THEN table[idx + 1] ELSE -1

-----------------------------------------------------------------------------
(* The symbol loops of start_deflate_block.  An iteration works on the       *)
(* record m of the locals it changes:                                        *)
(*   s, out, dest, src, length, offset, entry, saved (saved_bitbuf),         *)
(*   st   "run", or the error returned, or the panic;                        *)
(*   nxt  where control goes: "sequence", "safe", or "eob" (break 'decode);  *)
(*   ovf  whether a u8 subtraction of the reader overflowed;                 *)
(*   ev   what was decoded.                                                  *)
(* checks tells whether the build has overflow checks.                       *)

NoEvent == [kind |-> "none", len |-> 0, nlen |-> 0, offset |-> 0, at |-> 0,
            loop |-> "none"]

Fail(m, st) == [m EXCEPT !.st = st]

\* self.stream.drop_bits(n) where the code has not asked has(n) before
Drop(m, n, checks) ==
    IF m.st # "run" THEN m
    ELSE IF drop_overflows(m.s, n)
    THEN IF checks THEN [m EXCEPT !.st = PANIC_OVERFLOW, !.ovf = TRUE]
         ELSE [m EXCEPT !.s = drop_bits(m.s, n), !.ovf = TRUE]
    ELSE [m EXCEPT !.s = drop_bits(m.s, n)]

\* resize_and_push(&mut out_block, dest_offset, literal as u8); dest_offset += 1
Push(m, literal) ==
    [m EXCEPT !.out = resize_and_push(m.out, m.dest, AsU8(literal)),
              !.dest = m.dest + 1]

\* the entry of the offset code: offset_decode_table[peek_bits::<8>()] and,
\* for a subtable pointer, the entry of the subtable
OffsetEntry(m, offset_table, checks) ==
    LET e == offset_table[peek_bits(m.s, OFFSET_TABLEBITS) + 1]
    IN  IF HasFlag(e, HUFFDEC_EXCEPTIONAL)
        THEN LET m1 == Drop(m, OFFSET_TABLEBITS, checks)
                 extra == peek_var_bits(m1.s, Shr(e, 8) % 64)
                 e2 == Lookup(offset_table,
                              (Shr(e, 16) + extra) % (OFFSET_SUBTABLE_MASK + 1))
             IN  IF m1.st # "run" THEN m1
                 ELSE IF e2 < 0 THEN Fail(m1, PANIC_INDEX)
                 ELSE [m1 EXCEPT !.entry = e2]
        ELSE [m EXCEPT !.entry = e]

\* lines 370-506: the match whose length entry is m.entry (already dropped)
FastMatch(m, litlen_table, offset_table, checks) ==
    LET len == BaseAndExtra(m.entry, m.saved)
        m1  == OffsetEntry(m, offset_table, checks)
        m2  == Drop([m1 EXCEPT !.saved = m1.s.buffer], AsU8(m1.entry), checks)
        off == BaseAndExtra(m2.entry, m2.saved)
        src == m2.dest - off
        o1  == EnsureSlack(m2.out, m2.dest, len)
        evt == [NoEvent EXCEPT !.kind = "match", !.len = len, !.offset = off,
                               !.at = m2.dest, !.loop = "fast"]
    IN  IF m1.st # "run" THEN m1
        ELSE IF m2.st # "run" THEN m2
        ELSE IF OffsetBeyondOutput(off, m2.dest)
        THEN [m2 EXCEPT !.st = ERR_CORRUPT, !.length = len, !.offset = off,
                        !.ev = evt]
        ELSE [m2 EXCEPT
                 !.length = len, !.offset = off, !.src = src,
                 !.entry = litlen_table[peek_bits(m2.s, LITLEN_DECODE_BITS) + 1],
                 !.out = FastCopy(o1, src, m2.dest, len, off),
                 !.dest = m2.dest + len,
                 !.nxt = IF 2 * FASTCOPY_BITS > remaining_bytes(m2.s)
                         THEN "safe" ELSE "sequence",
                 !.ev = evt]

\* lines 314-355, then the match: m.entry is not a literal and is dropped
FastItem(m, litlen_table, offset_table, checks) ==
    IF m.st # "run" THEN m
    ELSE IF ~HasFlag(m.entry, HUFFDEC_EXCEPTIONAL)
    THEN FastMatch(m, litlen_table, offset_table, checks)
    ELSE IF HasFlag(m.entry, HUFFDEC_END_OF_BLOCK)
    THEN [m EXCEPT !.nxt = "eob", !.ev.kind = "eob", !.ev.loop = "fast"]
    ELSE LET pos == Shr(m.entry, 16)
                    + peek_var_bits(m.s, Shr(m.entry, 8) % 64)
             e   == Lookup(litlen_table, pos)
             m1  == Drop([m EXCEPT !.saved = m.s.buffer, !.entry = e],
                         AsU8(e), checks)
         IN  IF e < 0 THEN Fail(m, PANIC_INDEX)
             ELSE IF m1.st # "run" THEN m1
             ELSE IF HasFlag(e, HUFFDEC_LITERAL)
             THEN [Push(m1, Shr(e, 16)) EXCEPT
                      !.entry = litlen_table[
                                    peek_bits(m1.s, LITLEN_DECODE_BITS) + 1],
                      !.ev.kind = "literal", !.ev.loop = "fast"]
             ELSE IF HasFlag(e, HUFFDEC_END_OF_BLOCK)
             THEN [m1 EXCEPT !.nxt = "eob", !.ev.kind = "eob", !.ev.loop = "fast"]
             ELSE FastMatch(m1, litlen_table, offset_table, checks)

\* lines 267-308: m.entry is a literal and is dropped
FastLiteral(m, litlen_table, offset_table, checks) ==
    IF m.st # "run" THEN m
    ELSE LET e2 == litlen_table[peek_bits(m.s, LITLEN_DECODE_BITS) + 1]
             m1 == Drop([m EXCEPT !.saved = m.s.buffer, !.entry = e2],
                        AsU8(e2), checks)
             m2 == Push(m1, Shr(m.entry, 16))
         IN  IF m1.st # "run" THEN m1
             ELSE IF HasFlag(e2, HUFFDEC_LITERAL)
             THEN [Push(m2, Shr(e2, 16)) EXCEPT
                      !.entry = litlen_table[
                                    peek_bits(m2.s, LITLEN_DECODE_BITS) + 1],
                      !.ev.kind = "literal", !.ev.loop = "fast"]
             ELSE FastItem([m2 EXCEPT !.ev.kind = "literal", !.ev.loop = "fast"],
                           litlen_table, offset_table, checks)

\* one iteration of the 'sequence loop (lines 237-507)
SequenceIteration(m, litlen_table, offset_table, checks) ==
    IF 2 * FASTCOPY_BITS > remaining_bytes(m.s)
    THEN [m EXCEPT !.nxt = "safe"]
    ELSE LET s1 == refill(m.s)
             m1 == Drop([m EXCEPT !.s = s1, !.saved = s1.buffer],
                        LowBits(m.entry, 8), checks)
         IN  IF HasFlag(m.entry, HUFFDEC_LITERAL)
             THEN FastLiteral(m1, litlen_table, offset_table, checks)
             ELSE FastItem(m1, litlen_table, offset_table, checks)

\* lines 556-615: the match of the safe loop; m.entry is the length entry
SafeMatch(m, offset_table, checks) ==
    LET len == BaseAndExtra(m.entry, m.saved)
        m1  == OffsetEntry([m EXCEPT !.s = refill(m.s)], offset_table, checks)
        o1  == EnsureSlack(m1.out, m1.dest, len)
        off == BaseAndExtra(m1.entry, m1.s.buffer)
        src == m1.dest - off
        evt == [NoEvent EXCEPT !.kind = "match", !.len = len, !.offset = off,
                               !.at = m1.dest, !.loop = "safe"]
        m2  == [m1 EXCEPT !.out = o1, !.saved = m1.s.buffer, !.length = len,
                          !.offset = off, !.ev = evt]
    IN  IF m1.st # "run" THEN m1
        ELSE IF OffsetBeyondOutput(off, m1.dest) THEN Fail(m2, ERR_CORRUPT)
        ELSE IF ~has(m1.s, LowBits(m1.entry, 8))
        THEN Fail([m2 EXCEPT !.src = src], ERR_INSUFFICIENT)
        ELSE [m2 EXCEPT !.src = src,
                        !.s = drop_bits(m1.s, AsU8(m1.entry)),
                        !.out = SafeCopy(o1, src, m1.dest, len),
                        !.dest = m1.dest + len]

\* one iteration of the safe loop (lines 514-616)
SafeIteration(m, litlen_table, offset_table, checks) ==
    LET s1 == refill(m.s)
        e  == litlen_table[peek_bits(s1, LITLEN_DECODE_BITS) + 1]
        m1 == [m EXCEPT !.s = drop_bits(s1, LowBits(e, 8)),
                        !.saved = s1.buffer, !.entry = e]
        e2 == Lookup(litlen_table,
                     Shr(e, 16) + peek_var_bits(m1.s, Shr(e, 8) % 64))
        m2 == IF HasFlag(e, HUFFDEC_SUITABLE_POINTER)
              THEN IF e2 < 0 THEN Fail(m1, PANIC_INDEX)
                   ELSE Drop([m1 EXCEPT !.entry = e2, !.saved = m1.s.buffer],
                             LowBits(e2, 8), checks)
              ELSE m1
    IN  IF ~has(s1, LowBits(e, 8))
        THEN Fail([m EXCEPT !.s = s1, !.saved = s1.buffer, !.entry = e],
                  ERR_INSUFFICIENT)
        ELSE IF m2.st # "run" THEN m2
        ELSE IF HasFlag(m2.entry, HUFFDEC_LITERAL)
        THEN [Push(m2, Shr(m2.entry, 16)) EXCEPT
                 !.length = Shr(m2.entry, 16),
                 !.ev.kind = "literal", !.ev.loop = "safe"]
        ELSE IF HasFlag(m2.entry, HUFFDEC_END_OF_BLOCK)
        THEN [m2 EXCEPT !.length = Shr(m2.entry, 16), !.nxt = "eob",
                        !.ev.kind = "eob", !.ev.loop = "safe"]
        ELSE SafeMatch(m2, offset_table, checks)

-----------------------------------------------------------------------------
(* decode_zlib, decode_deflate and start_deflate_block as steps of a call.   *)
(* pc: "idle" (constructed, not called), "block" (head of the block loop),   *)
(* "sequence" (head of the 'sequence loop), "safe" (head of the safe loop),  *)
(* "finish" (after the block loop), "done".                                  *)

Panics == {PANIC_INDEX, PANIC_OVERFLOW, PANIC_ADLER}

NoResult == [kind |-> "None", err |-> "", out |-> <<>>]

Ok(bytes) == [kind |-> "Ok", err |-> "", out |-> bytes]

\* Err(e), or the abort of the call where st is a panic
Ended(st) ==
    [kind |-> IF st \in Panics THEN "Panic" ELSE "Err", err |-> st, out |-> <<>>]

\* the number of calls made on one decoder
MaxCalls == 2

\* the builds the reached state is possible in
Checks == IF build = "any" THEN BOOLEAN ELSE {build = "debug"}

BuildAfter(ovf, checks) ==
    IF ovf THEN (IF checks THEN "debug" ELSE "release") ELSE build

\* !nlen on a usize: all the bits are flipped, so the result has its top
\* bit set; words with the top bit set are written as negative integers
NotUsize(x) == -x - 1

\* a variant of the checks below without the test of FCHECK
zlib_header_no_fcheck(d) ==
    LET cmf   == d[1]
        cm    == cmf % 16
        cinfo == cmf \div 16
    IN  IF cm # 8 THEN (IF cm = 15 THEN ERR_CM_15 ELSE ERR_UNKNOWN_CM)
        ELSE IF cinfo > 7 THEN ERR_CINFO
        ELSE "Ok"

\* the checks of the two header bytes: the error returned, or "Ok"
zlib_header(d) ==
    LET cmf   == d[1]
        flg   == d[2]
        cm    == cmf % 16
        cinfo == cmf \div 16
    IN  IF cm # 8 THEN (IF cm = 15 THEN ERR_CM_15 ELSE ERR_UNKNOWN_CM)
        ELSE IF cinfo > 7 THEN ERR_CINFO
        ELSE IF (cmf * 256 + flg) % 31 # 0 THEN ERR_FCHECK
        ELSE "Ok"

\* lines 132-141 of start_deflate_block
BeginBlocks ==
    /\ stream' = refill(BitStreamReader_new(position'))
    /\ out_block' = NewVec(OUT_INITIAL_LEN)
    /\ src_offset' = 0
    /\ dest_offset' = 0
    /\ pc' = "block"
    /\ result' = NoResult

Return(r) ==
    /\ result' = r
    /\ pc' = "done"

\* a call that returns st before start_deflate_block is entered
Rejected(st) ==
    /\ Return(Ended(st))
    /\ out_block' = NewVec(0)
    /\ src_offset' = 0
    /\ dest_offset' = 0
    /\ UNCHANGED <<position, stream>>

\* the decoder can be called: it was constructed, or a call on it has
\* returned (the fields of the decoder are kept, the locals of the call
\* start afresh)
CallBegins(name) ==
    /\ \/ pc = "idle"
       \/ pc = "done" /\ result.kind \in {"Ok", "Err"} /\ calls < MaxCalls
    /\ api' = name
    /\ calls' = calls + 1
    /\ ev' = NoEvent
    /\ blocks_read' = 0
    /\ length' = 0
    /\ offset' = 0
    /\ entry' = 0
    /\ block_type' = 0
    /\ UNCHANGED <<data, is_last_block, static_codes_loaded,
                   litlen_decode_table, offset_decode_table, build>>
    /\ UNCHANGED inner_vars

decode_zlib ==
    /\ CallBegins("zlib")
    /\ IF Len(data) < ZLIB_MIN_LEN
       THEN Rejected(ERR_INSUFFICIENT)
       ELSE IF zlib_header(data) # "Ok"
       THEN Rejected(zlib_header(data))
       ELSE /\ position' = 2
            /\ BeginBlocks

decode_deflate ==
    /\ CallBegins("deflate")
    /\ position' = position
    /\ BeginBlocks

\* lines 154-203: the stored block whose header was read from s0; the
\* result is [st, s, out, nxt, ev]
StoredBlock(s0, last) ==
    LET partial_bits == get_bits_left(s0) % 8
        s1    == drop_bits(s0, partial_bits)
        g1    == get_bits(s1, 16)
        g2    == get_bits(g1.s, 16)
        len   == g1.v
        nlen  == g2.v
        start == get_position(g2.s) + position
        curr_len == out_block.len
        grown == resize(out_block, len + curr_len)
        evt   == [NoEvent EXCEPT !.kind = "stored", !.len = len, !.nlen = nlen,
                                 !.at = dest_offset]
        r(st, s, out, nxt) ==
            [st |-> st, s |-> s, out |-> out, nxt |-> nxt, ev |-> evt]
    IN  IF ~has(s0, 32 + partial_bits)
        THEN [st |-> ERR_INSUFFICIENT, s |-> s0, out |-> out_block,
              nxt |-> "done", ev |-> [NoEvent EXCEPT !.kind = "header"]]
        ELSE IF len # NotUsize(nlen)
        THEN r(ERR_LEN_NLEN, g2.s, out_block, "done")
        ELSE IF start < 0 \/ start + len > Len(data)
        THEN r(PANIC_INDEX, g2.s, grown, "done")
        ELSE IF last
        THEN r("run", g2.s,
               OutPut(grown, curr_len, SubSeq(data, start + 1, start + len)),
               "finish")
        ELSE r("run", reset(g2.s),
               OutPut(grown, curr_len, SubSeq(data, start + 1, start + len)),
               "block")

\* lines 154-203: the stored block ended as b
StoredBlockRead(b) ==
    /\ stream' = b.s
    /\ out_block' = b.out
    /\ ev' = b.ev
    /\ IF b.st = "run"
       THEN /\ pc' = b.nxt
            /\ result' = result
       ELSE Return(Ended(b.st))
    /\ UNCHANGED <<static_codes_loaded, litlen_decode_table,
                   offset_decode_table, length, offset, entry>>

\* a variant of the head of 'decode below that always takes the fast loop
DecodeLoopHead_fast(s, s1, litlen) ==
    /\ stream' = s1
    /\ entry' = litlen[peek_bits(s1, LITLEN_DECODE_BITS) + 1]
    /\ pc' = "sequence"
    /\ result' = result

\* lines 225-236: the head of 'decode, entered with the reader s
DecodeLoopHead(s, s1, litlen) ==
    IF 3 * FASTCOPY_BITS < remaining_bytes(s)
    THEN /\ stream' = s1
         /\ entry' = litlen[peek_bits(s1, LITLEN_DECODE_BITS) + 1]
         /\ pc' = "sequence"
         /\ result' = result
    ELSE /\ stream' = s
         /\ entry' = 0
         /\ pc' = "safe"
         /\ result' = result

\* lines 206-236: build_decode_table(block_type) returned t
DecodeTablesBuilt(t) ==
    /\ static_codes_loaded' = t.static_codes_loaded
    /\ litlen_decode_table' = t.litlen
    /\ offset_decode_table' = t.offset
    /\ ev' = [NoEvent EXCEPT !.kind = "header"]
    /\ out_block' = out_block
    /\ length' = 0
    /\ offset' = 0
    /\ IF t.st # "Ok"
       THEN /\ Return(Ended(t.st))
            /\ stream' = t.s
            /\ entry' = 0
       ELSE DecodeLoopHead(t.s, refill(t.s), t.litlen)

\* lines 145-206: the block whose header bits are last and block_type, the
\* reader s being behind them
BlockHeaderRead(last, bt, s) ==
    /\ is_last_block' = last
    /\ block_type' = bt
    /\ blocks_read' = blocks_read + 1
    /\ IF bt = DEFLATE_BLOCKTYPE_UNCOMPRESSED
       THEN StoredBlockRead(StoredBlock(s, last))
       ELSE DecodeTablesBuilt(
                build_decode_table(bt, s, static_codes_loaded,
                                   litlen_decode_table, offset_decode_table))

\* one iteration of the block loop (lines 143-236), up to the head of the
\* loop that decodes its symbols
start_deflate_block ==
    /\ pc = "block"
    /\ UNCHANGED <<data, position, api, build, dest_offset, src_offset, calls>>
    /\ UNCHANGED inner_vars
    /\ IF ~has(stream, 3)
       THEN /\ Return(Ended(ERR_INSUFFICIENT))
            /\ UNCHANGED <<stream, is_last_block, static_codes_loaded,
                   litlen_decode_table, offset_decode_table, out_block,
                   length, offset, entry, block_type, ev, blocks_read>>
       ELSE BlockHeaderRead(get_bits(stream, 1).v = 1,
                            get_bits(get_bits(stream, 1).s, 2).v,
                            get_bits(get_bits(stream, 1).s, 2).s)

\* the locals of the symbol loops as the record an iteration works on
Locals(nxt) ==
    [s |-> stream, out |-> out_block, dest |-> dest_offset, src |-> src_offset,
     length |-> length, offset |-> offset, entry |-> entry,
     saved |-> stream.buffer, st |-> "run", nxt |-> nxt, ovf |-> FALSE,
     ev |-> NoEvent]

\* a variant of the end of the block loop below that never leaves the loop
AfterBlock_loop(last) == "block"

\* lines 619-622: if self.is_last_block { break; }, else the next block
AfterBlock(last) == IF last THEN "finish" ELSE "block"

\* the state after the iteration that ended as m
Iterated(m, checks) ==
    /\ stream' = m.s
    /\ out_block' = m.out
    /\ dest_offset' = m.dest
    /\ src_offset' = m.src
    /\ length' = m.length
    /\ offset' = m.offset
    /\ entry' = m.entry
    /\ ev' = m.ev
    /\ build' = BuildAfter(m.ovf, checks)
    /\ IF m.st # "run" THEN Return(Ended(m.st))
       ELSE /\ result' = result
            /\ pc' = IF m.nxt = "eob" THEN AfterBlock(is_last_block)
                     ELSE m.nxt
    /\ UNCHANGED <<data, position, is_last_block, static_codes_loaded,
                   litlen_decode_table, offset_decode_table, block_type, api,
                   blocks_read, calls>>
    /\ UNCHANGED inner_vars

\* one iteration of the 'sequence loop (the fast loop)
sequence ==
    /\ pc = "sequence"
    /\ \E checks \in Checks :
          Iterated(SequenceIteration(Locals("sequence"), litlen_decode_table,
                                     offset_decode_table, checks), checks)

\* one iteration of the safe loop
safe_loop ==
    /\ pc = "safe"
    /\ \E checks \in Checks :
          Iterated(SafeIteration(Locals("safe"), litlen_decode_table,
                                 offset_decode_table, checks), checks)

\* lines 624-646: the end of start_deflate_block
finish ==
    /\ pc = "finish"
    /\ \E checks \in Checks :
          LET read    == get_position(stream)
              out_pos == read - Shr(stream.bits_left, 3)
              ovf     == read < 0 \/ out_pos < 0
              start   == position + out_pos
              out     == truncate(out_block, dest_offset)
              adler32_expected == SubSeq(data, start + 1, start + ADLER_LEN)
              adler32_found    == calc_adler_hash(out)
          IN  /\ build' = BuildAfter(ovf, checks)
              /\ out_block' = [len |-> Len(out), bytes |-> out]
              /\ ev' = [NoEvent EXCEPT !.kind = "finish", !.at = start]
              /\ IF ovf /\ checks THEN Return(Ended(PANIC_OVERFLOW))
                 ELSE IF start < 0 \/ start + ADLER_LEN > Len(data)
                 THEN Return(Ended(PANIC_INDEX))
                 ELSE IF adler32_expected # adler32_found
                 THEN Return(Ended(PANIC_ADLER))
                 ELSE Return(Ok(out))
    /\ UNCHANGED <<data, position, stream, is_last_block, static_codes_loaded,
                   litlen_decode_table, offset_decode_table, dest_offset,
                   src_offset, length, offset, entry, block_type, api,
                   blocks_read, calls>>
    /\ UNCHANGED inner_vars

-----------------------------------------------------------------------------
(* The inputs of the model: byte strings a caller can pass to new().         *)

\* a static block: literal 'a', end of block
RawStaticA ==
    <<75, 4, 0>>

PlainStaticA ==
    <<97>>

AdlerStaticA ==
    <<0, 98, 0, 98>>

\* a final stored block with LEN 0
RawStoredEmpty ==
    <<1, 0, 0, 255, 255>>

PlainStoredEmpty ==
    <<>>

AdlerStoredEmpty ==
    <<0, 0, 0, 1>>

\* a final stored block with LEN 1: 'A'
RawStoredA ==
    <<1, 1, 0, 254, 255, 65>>

PlainStoredA ==
    <<65>>

AdlerStoredA ==
    <<0, 66, 0, 66>>

\* a static block: 'a' 'b' 'c', then a match of length 6 at offset 3
RawStaticMatch ==
    <<75, 76, 74, 134, 32, 0>>

PlainStaticMatch ==
    <<97, 98, 99, 97, 98, 99, 97, 98, 99>>

AdlerStaticMatch ==
    <<17, 61, 3, 115>>

\* a static block 'h' 'i', not final, then a final static block '!'
RawTwoStatic ==
    <<202, 200, 4, 76, 17, 0>>

PlainTwoStatic ==
    <<104, 105, 33>>

AdlerTwoStatic ==
    <<2, 46, 0, 243>>

\* a static block 'a' 'b', not final, then a final static block with a
\* match of length 3 at offset 2, which reaches into the first block
RawTwoBlockMatch ==
    <<74, 76, 2, 12, 8, 1>>

PlainTwoBlockMatch ==
    <<97, 98, 97, 98, 97>>

AdlerTwoBlockMatch ==
    <<5, 186, 1, 232>>

\* a stored block 'A', not final, then a final static block 'b'
RawStoredThenStatic ==
    <<0, 1, 0, 254, 255, 65, 75, 2, 0>>

PlainStoredThenStatic ==
    <<65, 98>>

AdlerStoredThenStatic ==
    <<0, 230, 0, 164>>

\* a dynamic block of 40 literals 'a' and 'b' (written by zlib)
RawDynamic ==
    <<5, 193, 1, 1, 0, 0, 0, 128, 144, 173, 250, 63, 34, 80, 16, 0, 0,
      66, 192>>

PlainDynamic ==
    <<97, 97, 97, 98, 98, 97, 97, 97, 97, 98, 97, 97, 97, 97, 97, 97,
      97, 97, 97, 97, 97, 97, 97, 97, 97, 97, 97, 97, 97, 98, 97, 97,
      97, 98, 97, 97, 97, 97, 97, 97>>

AdlerDynamic ==
    <<55, 101, 15, 46>>

\* a static block of literals and matches (far, run-length, overlapping
\* and of length 258), long enough for the fast loop to run
RawStaticLong ==
    <<59, 113, 242, 212, 233, 51, 103, 207, 157, 191, 112, 241, 210,
      229, 43, 87, 175, 93, 191, 113, 243, 214, 109, 108, 98, 211, 240,
      131, 233, 51, 192, 16, 164, 110, 193, 194, 69, 139, 151, 44, 93,
      182, 124, 197, 202, 85, 171, 215, 172, 93, 183, 126, 195, 198, 77,
      155, 183, 108, 221, 182, 125, 199, 206, 93, 187, 247, 236, 29, 53,
      101, 213, 234, 53, 107, 215, 173, 223, 176, 113, 211, 230, 45, 91,
      1>>

PlainStaticLong ==
    <<200, 201, 202, 203, 204, 205, 206, 207, 208, 209, 210, 211, 212,
      213, 214, 215, 216, 217, 218, 219, 200, 201, 202, 203, 204, 205,
      206, 207, 208, 209, 210, 211, 212, 213, 214, 215, 216, 217, 218,
      219, 150, 150, 150, 150, 150, 150, 150, 150, 150, 150, 150, 150,
      150, 150, 150, 150, 150, 150, 150, 150, 150, 150, 150, 150, 150,
      150, 150, 150, 150, 150, 150, 151, 152, 151, 152, 151, 152, 151,
      218, 219, 150, 150, 160, 161, 162, 163, 164, 165, 166, 167, 168,
      169, 170, 171, 172, 173, 174, 175, 176, 177, 178, 179, 180, 181,
      182, 183, 184, 185, 186, 187, 188, 189, 150, 150, 150, 150, 150,
      150, 150, 150, 150, 150, 150, 150, 150, 150, 150, 150, 150, 150,
      150, 150, 150, 150, 150, 150, 150, 150, 150, 150, 150, 151, 152,
      151, 152, 151, 152, 151, 218, 219, 150, 150, 160, 161, 162, 163,
      164, 165, 166, 167, 168, 169, 170, 171, 172, 173, 174, 175, 176,
      177, 178, 179, 180, 181, 182, 183, 184, 185, 186, 187, 188, 189,
      150, 150, 150, 150, 150, 150, 150, 150, 150, 150, 150, 150, 150,
      150, 150, 150, 150, 150, 150, 150, 150, 150, 150, 150, 150, 150,
      150, 150, 150, 151, 152, 151, 152, 151, 152, 151, 218, 219, 150,
      150, 160, 161, 162, 163, 164, 165, 166, 167, 168, 169, 170, 171,
      172, 173, 174, 175, 176, 177, 178, 179, 180, 181, 182, 183, 184,
      185, 186, 187, 188, 189, 150, 150, 150, 150, 150, 150, 150, 150,
      150, 150, 150, 150, 150, 150, 150, 150, 150, 150, 150, 150, 150,
      150, 150, 150, 150, 150, 150, 150, 150, 151, 152, 151, 152, 151,
      152, 151, 218, 219, 150, 150, 160, 161, 162, 163, 164, 165, 166,
      167, 168, 169, 170, 171, 172, 173, 174, 175, 176, 177, 178, 179,
      180, 181, 182, 183, 184, 185, 186, 187, 188, 189, 150, 150, 150,
      150, 150, 150, 150, 150, 150, 150, 150, 150, 150, 150, 150, 150,
      150, 150, 150, 150, 150, 150, 150, 150, 150, 150, 150, 150, 150,
      151, 152, 151, 152, 151, 152, 151, 218, 219, 150, 150, 160, 161,
      162, 163, 164, 165, 166, 167, 170, 171, 172, 173, 174, 175, 176,
      177, 178, 179, 180, 181>>

AdlerStaticLong ==
    <<122, 191, 249, 26>>

\* a static block with two matches of more than 16 bytes that do not
\* overlap their source, early enough for the fast loop to copy them,
\* and a short one at the end, which the safe loop copies
RawStaticChunked ==
    <<75, 73, 77, 75, 207, 200, 204, 202, 206, 201, 205, 203, 47, 40,
      44, 42, 46, 41, 45, 43, 175, 168, 172, 170, 174, 169, 173, 171,
      111, 104, 108, 106, 110, 105, 109, 107, 239, 232, 236, 234, 198,
      166, 142, 160, 98, 57, 121, 5, 69, 37, 101, 21, 85, 53, 117, 13,
      77, 45, 109, 29, 93, 61, 125, 3, 67, 35, 99, 19, 83, 51, 115, 11,
      75, 43, 107, 27, 91, 59, 123, 7, 71, 39, 103, 23, 87, 55, 119, 15,
      79, 47, 111, 31, 95, 63, 255, 128, 192, 160, 224, 144, 208, 176,
      240, 136, 200, 168, 232, 152, 216, 184, 248, 132, 196, 164, 100,
      176, 94, 118, 14, 0>>

PlainStaticChunked ==
    <<100, 101, 102, 103, 104, 105, 106, 107, 108, 109, 110, 111, 112,
      113, 114, 115, 116, 117, 118, 119, 120, 121, 122, 123, 124, 125,
      126, 127, 128, 129, 130, 131, 132, 133, 134, 135, 136, 137, 138,
      139, 100, 101, 102, 103, 104, 105, 106, 107, 108, 109, 110, 111,
      112, 113, 114, 115, 116, 117, 118, 119, 115, 116, 117, 118, 119,
      120, 121, 122, 123, 124, 125, 126, 127, 128, 129, 130, 131, 132,
      133, 134, 135, 136, 137, 138, 139, 100, 101, 102, 103, 104, 105,
      106, 107, 30, 31, 32, 33, 34, 35, 36, 37, 38, 39, 40, 41, 42, 43,
      44, 45, 46, 47, 48, 49, 50, 51, 52, 53, 54, 55, 56, 57, 58, 59,
      60, 61, 62, 63, 64, 65, 66, 67, 68, 69, 70, 71, 72, 73, 74, 75,
      76, 77, 78, 79, 80, 81, 82, 83, 84, 85, 86, 87, 88, 89, 90, 91,
      92, 93, 94, 95, 96, 97, 98, 99, 40, 41, 42, 43, 44, 7, 8>>

AdlerStaticChunked ==
    <<47, 107, 61, 98>>

\* a final stored block with LEN 1 and NLEN 0
RawStoredBadNlen ==
    <<1, 1, 0, 0, 0, 65>>

\* a final stored block with LEN 1 and NLEN 0xFFFF
RawStoredNlenOnes ==
    <<1, 1, 0, 255, 255, 65>>

\* a final block with BTYPE 3, then a zero byte
RawReserved ==
    <<7, 0>>

\* a static block: 'a' 'b', then a match at offset 5
RawSafeFar ==
    <<75, 76, 2, 18, 0>>

\* a static block: 'a' 'b', then a match at offset 3
RawSafeEdge ==
    <<75, 76, 2, 34, 0>>

\* a static block 'a' 'b', not final, then a static block with a match
\* at offset 3
RawTwoBlockFar ==
    <<74, 76, 2, 12, 136, 0>>

\* a static block 'a' 'b', a dynamic block 'a' 'b' and a match of length 3
\* at offset 2, both not final, then a final static block '!'
RawThreeBlocks ==
    <<74, 76, 2, 48, 132, 111, 75, 146, 36, 73, 178, 44, 251, 173, 68,
      255, 255, 17, 68, 136, 248, 166, 8, 0>>

PlainThreeBlocks ==
    <<97, 98, 97, 98, 97, 98, 97, 33>>

AdlerThreeBlocks ==
    <<13, 123, 2, 204>>

\* a dynamic block 'a' 'b' and a match of length 3 at offset 2, then two
\* static blocks '!' and '"', the last one final
RawDynamicThenStatics ==
    <<12, 225, 219, 146, 36, 73, 146, 44, 203, 126, 43, 209, 255, 127,
      4, 17, 34, 62, 41, 2, 166, 4, 0>>

PlainDynamicThenStatics ==
    <<97, 98, 97, 98, 97, 33, 34>>

AdlerDynamicThenStatics ==
    <<9, 238, 2, 43>>

\* a final static block: literal 'a', litlen symbol 286, offset symbol 0,
\* end of block
RawStatic286 ==
    <<75, 28, 3, 0>>

\* the same with litlen symbol 287
RawStatic287 ==
    <<75, 28, 7, 0>>

\* a final static block: literal 'a', length symbol 257, offset symbol 30
\* with 13 zero bits, end of block
RawStaticOffset30 ==
    <<75, 4, 62, 0, 0, 0>>

\* the same with offset symbol 31
RawStaticOffset31 ==
    <<75, 4, 126, 0, 0, 0>>

ReservedLitlenRaw == { RawStatic286, RawStatic287 }

ReservedOffsetRaw == { RawStaticOffset30, RawStaticOffset31 }

\* a final dynamic block whose offset code has one symbol, of length 1:
\* 'a' 'b' and a match of length 3 at offset 1
RawDynamicOneOffset ==
    <<13, 224, 219, 146, 36, 73, 146, 44, 203, 126, 43, 209, 255, 127,
      4, 17, 226, 2>>

PlainDynamicOneOffset ==
    <<97, 98, 98, 98, 98>>

AdlerDynamicOneOffset ==
    <<5, 190, 1, 234>>

\* a final dynamic block 'a' 'b' match(3, 2) with 258 + 10 lengths, the last
\* item of which, presym 17, writes 10 zeros where 8 lengths remain
RawDynamicOverrun17 ==
    <<13, 233, 219, 146, 36, 73, 146, 44, 203, 126, 43, 209, 255, 127,
      4, 17, 226, 59, 62>>

\* the same with 258 + 14 lengths, the last item, presym 18, writes 13 zeros
\* where 12 lengths remain
RawDynamicOverrun18 ==
    <<13, 237, 219, 146, 36, 73, 146, 44, 203, 126, 43, 209, 255, 127,
      4, 17, 226, 23, 224, 3>>

\* the same with 258 + 4 lengths, the last item, presym 16, repeats the
\* length 2 four times where 3 lengths remain
RawDynamicOverrun16 ==
    <<13, 227, 219, 146, 36, 73, 146, 44, 203, 126, 43, 209, 255, 127,
      4, 17, 221, 112, 3>>

\* the same with presym 16 repeating the length 2 three times: exactly
\* 258 + 4 lengths
RawDynamicExact16 ==
    <<13, 227, 219, 146, 36, 73, 146, 44, 203, 126, 43, 209, 255, 127,
      4, 93, 113, 3>>

PlainDynamicExact16 ==
    <<97, 98, 97, 98, 97>>

AdlerDynamicExact16 ==
    <<5, 186, 1, 232>>

DynamicOverrunRaw ==
    { RawDynamicOverrun16, RawDynamicOverrun17, RawDynamicOverrun18 }

\* a final dynamic block 'a' 'b' match(3, 2) with HLIT = 31: 288 litlen
\* lengths
RawDynamicHlit31 ==
    <<253, 225, 219, 146, 36, 73, 146, 44, 203, 126, 43, 209, 255, 127,
      4, 209, 159, 32, 226, 3>>

\* the same with HLIT = 1 and HDIST = 31: 32 offset lengths
RawDynamicHdist31 ==
    <<13, 255, 219, 146, 36, 73, 146, 44, 203, 126, 43, 209, 255, 127,
      4, 17, 226, 159, 224, 3>>

\* the same with HDIST = 3 and HCLEN = 13: 17 precode lengths are read, the
\* lengths of the precode symbols 1 and 15 are not
RawDynamicHclen13 ==
    <<13, 163, 73, 146, 36, 73, 146, 44, 123, 86, 196, 251, 31, 2, 71,
      220, 0>>

PlainDynamicHclen13 ==
    <<97, 98, 97, 98, 97>>

AdlerDynamicHclen13 ==
    <<5, 186, 1, 232>>

DynamicCountRaw == { RawDynamicHlit31, RawDynamicHdist31 }

\* a static block 'a', not final, then a final block with BTYPE 3 and a
\* zero byte
RawStaticThenReserved ==
    <<74, 4, 28, 0>>

\* a static block of 24 literals whose own bytes 21..24 are the Adler-32 of
\* its output; followed by 8 more bytes, these are the bytes the end of
\* start_deflate_block compares
RawSelfChecked ==
    <<235, 239, 239, 239, 111, 203, 207, 207, 207, 203, 207, 207, 207,
      207, 203, 203, 203, 115, 99, 40, 137, 145, 9, 145, 4, 0>>

PlainSelfChecked ==
    <<143, 143, 143, 143, 134, 111, 111, 111, 110, 111, 111, 111, 111,
      110, 110, 110, 110, 70, 0, 116, 92, 28, 84, 25>>

AdlerSelfChecked ==
    <<137, 145, 9, 145>>

SelfCheckedZlib == <<120, 1>> \o RawSelfChecked \o Zeros(8)

\* a static block: the byte 0, 143 matches of length 258 and one of length 89
\* at offset 1 (36984 bytes, 16 short of the vector's first length), then two
\* more bytes 0
RawStaticFill ==
    <<99, 24, 5, 163, 96, 20, 140, 130, 81, 48, 10, 70, 193, 40, 24, 5,
      163, 96, 20, 140, 130, 81, 48, 10, 70, 193, 40, 24, 5, 163, 96,
      20, 140, 130, 81, 48, 10, 70, 193, 40, 24, 5, 163, 96, 20, 140,
      130, 81, 48, 10, 70, 193, 40, 24, 5, 163, 96, 20, 140, 130, 81,
      48, 10, 70, 193, 40, 24, 5, 163, 96, 20, 140, 130, 81, 48, 10, 70,
      193, 40, 24, 5, 163, 96, 20, 140, 130, 81, 48, 10, 70, 193, 40,
      24, 5, 163, 96, 20, 140, 130, 81, 48, 10, 70, 193, 40, 24, 5, 163,
      96, 20, 140, 130, 81, 48, 10, 70, 193, 40, 24, 5, 163, 96, 20,
      140, 130, 81, 48, 10, 70, 193, 40, 24, 5, 163, 96, 20, 140, 130,
      81, 48, 10, 70, 193, 40, 24, 5, 163, 96, 20, 140, 130, 81, 48, 10,
      70, 193, 40, 24, 5, 163, 96, 20, 140, 130, 81, 48, 10, 70, 193,
      40, 24, 5, 163, 96, 20, 140, 130, 81, 48, 10, 70, 193, 40, 24, 5,
      163, 96, 20, 140, 130, 81, 48, 10, 70, 193, 40, 24, 5, 163, 96,
      20, 140, 130, 81, 48, 10, 70, 193, 40, 24, 5, 163, 96, 20, 140,
      130, 81, 48, 10, 70, 193, 40, 24, 5, 163, 96, 20, 140, 130, 81,
      48, 10, 70, 1, 205, 0, 3, 3, 0>>

\* a final dynamic block whose litlen code has four codewords of 12 bits
\* ('i', 'j' and the lengths 4 and 227..257) and whose offset code has four of
\* 9 bits (the offsets 13..16, 17..24 and from 16385 on): 13 times 'a', 'i',
\* match(3, 13), match(4, 1), match(230, 16)
RawDynamicSubtables ==
    <<229, 253, 219, 146, 36, 73, 146, 44, 203, 126, 43, 18, 139, 154,
      215, 204, 255, 127, 64, 198, 124, 199, 32, 177, 168, 121, 230, 71,
      100, 2, 128, 255, 249, 251, 195, 255, 249, 255, 241, 231, 127>>

PlainDynamicSubtables ==
    <<97, 97, 97, 97, 97, 97, 97, 97, 97, 97, 97, 97, 97, 105, 97, 97,
      97, 97, 97, 97, 97, 97, 97, 97, 97, 97, 97, 97, 97, 105, 97, 97,
      97, 97, 97, 97, 97, 97, 97, 97, 97, 97, 97, 97, 97, 105, 97, 97,
      97, 97, 97, 97, 97, 97, 97, 97, 97, 97, 97, 97, 97, 105, 97, 97,
      97, 97, 97, 97, 97, 97, 97, 97, 97, 97, 97, 97, 97, 105, 97, 97,
      97, 97, 97, 97, 97, 97, 97, 97, 97, 97, 97, 97, 97, 105, 97, 97,
      97, 97, 97, 97, 97, 97, 97, 97, 97, 97, 97, 97, 97, 105, 97, 97,
      97, 97, 97, 97, 97, 97, 97, 97, 97, 97, 97, 97, 97, 105, 97, 97,
      97, 97, 97, 97, 97, 97, 97, 97, 97, 97, 97, 97, 97, 105, 97, 97,
      97, 97, 97, 97, 97, 97, 97, 97, 97, 97, 97, 97, 97, 105, 97, 97,
      97, 97, 97, 97, 97, 97, 97, 97, 97, 97, 97, 97, 97, 105, 97, 97,
      97, 97, 97, 97, 97, 97, 97, 97, 97, 97, 97, 97, 97, 105, 97, 97,
      97, 97, 97, 97, 97, 97, 97, 97, 97, 97, 97, 97, 97, 105, 97, 97,
      97, 97, 97, 97, 97, 97, 97, 97, 97, 97, 97, 97, 97, 105, 97, 97,
      97, 97, 97, 97, 97, 97, 97, 97, 97, 97, 97, 97, 97, 105, 97, 97,
      97, 97, 97, 97, 97, 97, 97, 97, 97, 97, 97>>

AdlerDynamicSubtables ==
    <<14, 22, 95, 148>>

\* the header of that block, 3 times 'a' and the first 11 bits of the
\* codeword of 'i': the input ends behind the subtable pointer
RawDynamicCutInLitlen ==
    <<229, 253, 219, 146, 36, 73, 146, 44, 203, 126, 43, 18, 139, 154,
      215, 204, 255, 127, 64, 198, 124, 199, 32, 177, 168, 121, 230, 71,
      100, 226, 127>>

\* the header of that block, 15 times 'a', the length 3 and the first 7 bits
\* of the codeword of the offsets 13..16: the input ends inside the 8 bits of
\* the subtable pointer
RawDynamicCutInOffset ==
    <<229, 253, 219, 146, 36, 73, 146, 44, 203, 126, 43, 18, 139, 154,
      215, 204, 255, 127, 64, 198, 124, 199, 32, 177, 168, 121, 230, 71,
      100, 2, 0, 254, 254>>

\* a final dynamic block whose litlen and offset codes have codewords of 1 to
\* 15 bits (the byte 0 has 1 bit, 'j' has 11, the lengths 227..257 have 15,
\* the offsets from 16385 on have 15): the byte 0, 64 times match(258, 1),
\* 60 times the byte 0, 'j', match(227, 16385); a valid stream of 16801
\* bytes of output
RawDynamicDeepCodes ==
    <<237, 253, 219, 146, 36, 73, 146, 44, 203, 226, 183, 178, 168, 121,
      100, 245, 172, 253, 255, 175, 231, 67, 14, 33, 177, 168, 121, 100,
      245, 172, 253, 7, 231, 72, 146, 36, 73, 146, 36, 73, 146, 36, 73,
      146, 36, 73, 146, 36, 73, 146, 36, 73, 146, 36, 73, 146, 36, 1, 0,
      0, 0, 0, 0, 0, 128, 255, 253, 255, 193, 255, 15, 0, 252, 255, 0>>

\* the header of that block, 60 times the byte 0, 'j' and a match of length
\* 227 at the offset 16385, which lies before the start of the output
RawDynamicDeepFar ==
    <<237, 253, 219, 146, 36, 73, 146, 44, 203, 226, 183, 178, 168, 121,
      100, 245, 172, 253, 255, 175, 231, 67, 14, 33, 177, 168, 121, 100,
      245, 172, 253, 7, 231, 0, 0, 0, 0, 0, 0, 0, 192, 255, 254, 255,
      224, 255, 7, 0, 254, 127>>

\* a static block: the byte 0 and 144 matches of length 258 at offset 1; the
\* last match ends 153 bytes past the vector's first length
RawStaticGrow ==
    <<99, 24, 5, 163, 96, 20, 140, 130, 81, 48, 10, 70, 193, 40, 24, 5,
      163, 96, 20, 140, 130, 81, 48, 10, 70, 193, 40, 24, 5, 163, 96,
      20, 140, 130, 81, 48, 10, 70, 193, 40, 24, 5, 163, 96, 20, 140,
      130, 81, 48, 10, 70, 193, 40, 24, 5, 163, 96, 20, 140, 130, 81,
      48, 10, 70, 193, 40, 24, 5, 163, 96, 20, 140, 130, 81, 48, 10, 70,
      193, 40, 24, 5, 163, 96, 20, 140, 130, 81, 48, 10, 70, 193, 40,
      24, 5, 163, 96, 20, 140, 130, 81, 48, 10, 70, 193, 40, 24, 5, 163,
      96, 20, 140, 130, 81, 48, 10, 70, 193, 40, 24, 5, 163, 96, 20,
      140, 130, 81, 48, 10, 70, 193, 40, 24, 5, 163, 96, 20, 140, 130,
      81, 48, 10, 70, 193, 40, 24, 5, 163, 96, 20, 140, 130, 81, 48, 10,
      70, 193, 40, 24, 5, 163, 96, 20, 140, 130, 81, 48, 10, 70, 193,
      40, 24, 5, 163, 96, 20, 140, 130, 81, 48, 10, 70, 193, 40, 24, 5,
      163, 96, 20, 140, 130, 81, 48, 10, 70, 193, 40, 24, 5, 163, 96,
      20, 140, 130, 81, 48, 10, 70, 193, 40, 24, 5, 163, 96, 20, 140,
      130, 81, 48, 10, 70, 193, 40, 24, 5, 163, 96, 20, 140, 130, 81,
      48, 10, 70, 193, 40, 0, 0>>

\* bytes that are no DEFLATE stream
RawGarbage ==
    <<104, 101, 108, 108, 111, 44, 32, 119, 111, 114, 108, 100>>

\* the complete raw DEFLATE streams, with the bytes they encode and the
\* Adler-32 of those bytes
ValidRaw ==
    { [raw |-> RawStaticA, plain |-> PlainStaticA, adler |-> AdlerStaticA],
      [raw |-> RawStoredEmpty, plain |-> PlainStoredEmpty,
       adler |-> AdlerStoredEmpty],
      [raw |-> RawStoredA, plain |-> PlainStoredA, adler |-> AdlerStoredA],
      [raw |-> RawStaticMatch, plain |-> PlainStaticMatch,
       adler |-> AdlerStaticMatch],
      [raw |-> RawTwoStatic, plain |-> PlainTwoStatic, adler |-> AdlerTwoStatic],
      [raw |-> RawTwoBlockMatch, plain |-> PlainTwoBlockMatch,
       adler |-> AdlerTwoBlockMatch],
      [raw |-> RawStoredThenStatic, plain |-> PlainStoredThenStatic,
       adler |-> AdlerStoredThenStatic],
      [raw |-> RawDynamic, plain |-> PlainDynamic, adler |-> AdlerDynamic],
      [raw |-> RawStaticLong, plain |-> PlainStaticLong,
       adler |-> AdlerStaticLong],
      [raw |-> RawStaticChunked, plain |-> PlainStaticChunked,
       adler |-> AdlerStaticChunked],
      [raw |-> RawThreeBlocks, plain |-> PlainThreeBlocks,
       adler |-> AdlerThreeBlocks],
      [raw |-> RawDynamicThenStatics, plain |-> PlainDynamicThenStatics,
       adler |-> AdlerDynamicThenStatics],
      [raw |-> RawDynamicOneOffset, plain |-> PlainDynamicOneOffset,
       adler |-> AdlerDynamicOneOffset],
      [raw |-> RawDynamicExact16, plain |-> PlainDynamicExact16,
       adler |-> AdlerDynamicExact16],
      [raw |-> RawDynamicHclen13, plain |-> PlainDynamicHclen13,
       adler |-> AdlerDynamicHclen13],
      [raw |-> RawDynamicSubtables, plain |-> PlainDynamicSubtables,
       adler |-> AdlerDynamicSubtables] }

\* the streams whose prefixes and wrong trailers are tried
ShortRaw == { r \in ValidRaw : Len(r.raw) <= 9 }

InvalidRaw ==
    { RawStoredBadNlen, RawStoredNlenOnes, RawReserved, RawSafeFar,
      RawSafeEdge, RawTwoBlockFar, RawGarbage, RawStaticThenReserved }

\* CMF, FLG that pass the checks of RFC 1950 (0x78 0x01, 0x78 0x9C)
GoodHeaders == { <<120, 1>>, <<120, 156>> }

\* bad FCHECK (0x78 0x00, 0x08 0x01), CM 7 and CM 15 with a good FCHECK
\* (0x77 0x09, 0x7F 0x07), CINFO 8 with a good and a bad FCHECK
BadHeaders ==
    { <<120, 0>>, <<8, 1>>, <<119, 9>>, <<127, 7>>, <<136, 28>>, <<136, 0>> }

\* FDICT set, CM, CINFO and FCHECK good (0x78 0x20, 0x78 0xBB)
DictHeaders == { <<120, 32>>, <<120, 187>> }

\* the longest cut off the end of a stream, and the length the inputs of
\* the fast loop are padded to
MaxCut == 15
PadTo == 64

Zlib(h, r) == h \o r.raw \o r.adler

WrongAdler(a) == [a EXCEPT ![4] = (a[4] + 1) % U8_MOD]

StrictPrefixes(b) == { SubSeq(b, 1, Len(b) - k) : k \in 1..Min(MaxCut, Len(b)) }

Padded(b) == b \o Zeros(PadTo - Len(b))

ValidZlib == { Zlib(h, r) : h \in GoodHeaders, r \in ValidRaw }

WrongTrailerZlib == { <<120, 1>> \o r.raw \o WrongAdler(r.adler) : r \in ShortRaw }

PrefixesOfZlib == UNION { StrictPrefixes(Zlib(<<120, 1>>, r)) : r \in ShortRaw }

PrefixesOfRaw == UNION { StrictPrefixes(r.raw) : r \in ShortRaw }

BadHeaderInputs ==
    { h \o RawStaticA \o AdlerStaticA : h \in BadHeaders \cup DictHeaders }
    \cup BadHeaders \cup { h \o RawStaticA : h \in BadHeaders }

Inputs ==
    { r.raw : r \in ValidRaw } \cup { r.raw \o r.adler : r \in ValidRaw }
    \cup ValidZlib \cup WrongTrailerZlib \cup PrefixesOfZlib \cup PrefixesOfRaw
    \cup BadHeaderInputs \cup InvalidRaw
    \cup { <<120, 1>> \o b \o <<0, 0, 0, 1>> : b \in InvalidRaw }
    \cup { Padded(b) : b \in {RawSafeFar, RawSafeEdge, RawStaticMatch,
                              RawThreeBlocks} }
    \cup { <<120, 1>> \o Padded(b) : b \in {RawSafeFar, RawSafeEdge} }
    \cup { SelfCheckedZlib }
    \cup ReservedLitlenRaw \cup ReservedOffsetRaw
    \cup DynamicOverrunRaw \cup { Padded(b) : b \in DynamicOverrunRaw }
    \cup DynamicCountRaw
    \cup { Padded(b) : b \in ReservedLitlenRaw \cup ReservedOffsetRaw }
    \cup { RawStaticFill }
    \cup { RawDynamicCutInLitlen, RawDynamicCutInOffset,
            Padded(RawDynamicSubtables) \o Padded(<<>>) }
    \cup { RawDynamicDeepCodes \o Padded(<<>>),
            RawDynamicDeepFar \o Padded(<<>>) }
    \cup { RawStaticGrow \o Padded(<<>>) }

-----------------------------------------------------------------------------
(* DeflateDecoder::new(data), and the calls on it *)

\* the decoder as new() leaves it, no call made
Constructed ==
    /\ position = 0
    /\ stream = BitStreamReader_new(0)
    /\ is_last_block = FALSE
    /\ static_codes_loaded = FALSE
    /\ litlen_decode_table = Zeros(LITLEN_ENOUGH)
    /\ offset_decode_table = Zeros(OFFSET_ENOUGH)
    /\ out_block = NewVec(0)
    /\ dest_offset = 0
    /\ src_offset = 0
    /\ length = 0
    /\ offset = 0
    /\ entry = 0
    /\ block_type = 0
    /\ pc = "idle"
    /\ api = "none"
    /\ result = NoResult
    /\ build = "any"
    /\ ev = NoEvent
    /\ blocks_read = 0
    /\ calls = 0

Init ==
    /\ data \in Inputs
    /\ Constructed
    /\ inner_lens = <<>>
    /\ inner_table = <<>>
    /\ inner_code = "none"
    /\ inner_st = "none"

Next ==
    \/ decode_zlib
    \/ decode_deflate
    \/ start_deflate_block
    \/ sequence
    \/ safe_loop
    \/ finish

Spec == Init /\ [][Next]_vars

-----------------------------------------------------------------------------
(* build_decode_table_inner called on its own, on the lengths of a code of   *)
(* InnerSyms symbols with lengths up to InnerMaxLen: as the precode (lines   *)
(* 711-718) and as the offset code (lines 848-855).                          *)

InnerSyms == 4
InnerMaxLen == 3

LensInputs == [1..InnerSyms -> 0..InnerMaxLen]

InnerInit ==
    /\ data = <<>>
    /\ Constructed
    /\ inner_lens \in LensInputs
    /\ inner_table = <<>>
    /\ inner_code = "none"
    /\ inner_st = "none"

InnerBuilt(name, r) ==
    /\ inner_code = "none"
    /\ inner_code' = name
    /\ inner_table' = r.t
    /\ inner_st' = r.st
    /\ UNCHANGED inner_lens
    /\ UNCHANGED decoder_vars

build_precode_table ==
    InnerBuilt("precode",
        build_decode_table_inner(
            inner_lens \o Zeros(DEFLATE_NUM_PRECODE_SYMS - Len(inner_lens)),
            PRECODE_DECODE_RESULTS, Zeros(PRECODE_ENOUGH), PRECODE_TABLE_BITS,
            DEFLATE_NUM_PRECODE_SYMS, DEFLATE_MAX_CODEWORD_LENGTH))

build_offset_table ==
    InnerBuilt("offset",
        build_decode_table_inner(
            inner_lens, OFFSET_DECODE_RESULTS, Zeros(OFFSET_ENOUGH),
            OFFSET_TABLEBITS, Len(inner_lens),
            DEFLATE_MAX_OFFSET_CODEWORD_LENGTH))

InnerNext ==
    \/ build_precode_table
    \/ build_offset_table

InnerSpec == InnerInit /\ [][InnerNext]_vars

-----------------------------------------------------------------------------
(* build_decode_table_inner called on its own on codes with codewords longer *)
(* than the primary index: the lengths 1..p of p symbols, then InnerSyms     *)
(* symbols whose lengths are p + 1 .. p + InnerMaxLen or 0; as the offset    *)
(* code (lines 848-855) and as the litlen code (lines 857-864).              *)

LongPrefixes ==
    { OFFSET_TABLEBITS - 1, LITLEN_TABLE_BITS - 1,
      DEFLATE_MAX_CODEWORD_LENGTH - InnerMaxLen }

LongLens(p, tail) ==
    [k \in 1..p |-> k]
        \o [k \in 1..Len(tail) |->
               IF tail[k] = 0 THEN 0
               ELSE Min(p + tail[k], DEFLATE_MAX_CODEWORD_LENGTH)]

LongLensInputs == { LongLens(p, tail) : p \in LongPrefixes, tail \in LensInputs }

SubtableInit ==
    /\ data = <<>>
    /\ Constructed
    /\ inner_lens \in LongLensInputs
    /\ inner_table = <<>>
    /\ inner_code = "none"
    /\ inner_st = "none"

build_litlen_table ==
    InnerBuilt("litlen",
        build_decode_table_inner(
            inner_lens \o Zeros(DEFLATE_NUM_LITLEN_SYMS - Len(inner_lens)),
            LITLEN_DECODE_RESULTS, Zeros(LITLEN_ENOUGH), LITLEN_TABLE_BITS,
            DEFLATE_NUM_LITLEN_SYMS, DEFLATE_MAX_LITLEN_CODEWORD_LENGTH))

SubtableNext ==
    \/ build_offset_table
    \/ build_litlen_table

SubtableSpec == SubtableInit /\ [][SubtableNext]_vars

-----------------------------------------------------------------------------
(* Properties of stored blocks, block types and the end of a call *)

\* the two header bytes break a rule of RFC 1950 that decode_zlib tests
HeaderViolated ==
    \/ data[1] % 16 # 8
    \/ data[1] \div 16 > 7
    \/ (data[1] * 256 + data[2]) % 31 # 0

HeaderErrors == {ERR_CM_15, ERR_UNKNOWN_CM, ERR_CINFO, ERR_FCHECK}

\* LEN and NLEN of the stored block just read are 16-bit complements
StoredComplement == ev.len + ev.nlen = 65535

\* C1: a stored block whose LEN and NLEN have been read is accepted exactly
\* when NLEN is the 16-bit one's complement of LEN (LEN = 0 included); any
\* other pair ends the call with CorruptData.
C1_StoredAcceptedIffComplement ==
    ev.kind = "stored" =>
        IF StoredComplement
        THEN result.kind # "Err"
        ELSE result = Ended(ERR_CORRUPT)

\* C2: after a stored block with complementary LEN and NLEN, the LEN input
\* bytes after the two fields are in the output from the write cursor of
\* the block on, and dest_offset has advanced by LEN.
C2_StoredBytesAppended ==
    (ev.kind = "stored" /\ StoredComplement) =>
        /\ result.kind # "Err"
        /\ dest_offset = ev.at + ev.len
        /\ OutSlice(out_block, ev.at, ev.len)
             = SubSeq(data, position + get_position(stream) - ev.len + 1,
                      position + get_position(stream))

\* C3: once a block header with BTYPE = 3 is read the call has failed with
\* CorruptData; no table is built for the block and no symbol of it is
\* decoded.
C3_ReservedTypeRejected ==
    (blocks_read > 0 /\ block_type = 3) =>
        /\ pc = "done"
        /\ result = Ended(ERR_CORRUPT)

\* C4: decode_deflate on exactly one complete raw DEFLATE stream returns Ok
\* with the bytes the stream encodes: no trailer is read or compared.
C4_RawStreamDecoded ==
    (api = "deflate" /\ pc = "done") =>
        \A r \in ValidRaw : data = r.raw => result = Ok(r.plain)

\* C5: when decode_zlib has decoded the last block and the four trailer
\* bytes differ from the Adler-32 of the output, the call returns the error
\* ChecksumMismatch: it does not return Ok and does not abort.
C5_ChecksumMismatchReturned ==
    (api = "zlib" /\ pc = "done" /\ ev.kind = "finish"
        /\ data \in WrongTrailerZlib) =>
        result = Ended(ERR_CHECKSUM_MISMATCH)

-----------------------------------------------------------------------------
(* Properties of the zlib header, of truncated inputs and of matches *)

\* decode_zlib has been called on an input that holds the two header bytes
ZlibCalled == api = "zlib" /\ Len(data) >= 2

\* the call ended on the header: an error of the header checks, no block
\* header read, no output
HeaderRejected ==
    /\ pc = "done"
    /\ result.kind = "Err"
    /\ result.err \in HeaderErrors
    /\ result.out = <<>>
    /\ blocks_read = 0
    /\ out_block = NewVec(0)

\* DEFLATE decoding starts at input byte 2
StartsAtByteTwo ==
    /\ position = 2
    /\ blocks_read = 0 => /\ pc = "block"
                          /\ stream = refill(BitStreamReader_new(2))

\* C6, as stated: decode_zlib returns a header error, before any bit of a
\* block header is read and with no output, whenever the first two bytes
\* break CM = 8, CINFO <= 7 or the FCHECK rule; when they keep all three
\* it starts decoding at input byte 2.
C6_HeaderCheckedOnEveryInput ==
    ZlibCalled => IF HeaderViolated THEN HeaderRejected ELSE StartsAtByteTwo

\* C6, for inputs of at least six bytes: decode_zlib returns a header
\* error, before any bit of a block header is read and with no output,
\* whenever the first two bytes break CM = 8, CINFO <= 7 or the FCHECK
\* rule; when they keep all three it starts decoding at input byte 2.
C6_HeaderChecked ==
    (ZlibCalled /\ Len(data) >= ZLIB_MIN_LEN) =>
        IF HeaderViolated THEN HeaderRejected ELSE StartsAtByteTwo

\* an input of six bytes or more was rejected for its FCHECK alone
C6_Witness ==
    /\ ZlibCalled
    /\ Len(data) >= ZLIB_MIN_LEN
    /\ data[1] % 16 = 8
    /\ data[1] \div 16 <= 7
    /\ HeaderViolated
    /\ HeaderRejected

\* C7: decode_zlib rejects every stream whose FLG has the preset-dictionary
\* bit (0x20) set with a header error, also when CM, CINFO and FCHECK are
\* good; no DEFLATE data of the stream is decoded.
C7_PresetDictionaryRejected ==
    (ZlibCalled /\ Len(data) >= ZLIB_MIN_LEN /\ (data[2] \div 32) % 2 = 1) =>
        /\ blocks_read = 0
        /\ pc = "done" /\ result.kind = "Err"

\* C8: decoding a strict prefix of a valid stream returns InsufficientData:
\* never Ok, never CorruptData, never an abort.
C8_PrefixInsufficientData ==
    /\ (api = "zlib" /\ pc = "done" /\ data \in PrefixesOfZlib) =>
           result = Ended(ERR_INSUFFICIENT)
    /\ (api = "deflate" /\ pc = "done" /\ data \in PrefixesOfRaw) =>
           result = Ended(ERR_INSUFFICIENT)

\* C9: decode_zlib ends with Ok or an Err value on every input: it never
\* aborts on an index out of range, a failed assertion or an unsigned
\* subtraction below zero.
C9_ZlibNeverAborts ==
    api = "zlib" => result.kind # "Panic"

\* C10: in the fast loop and in the safe loop, a decoded match whose offset
\* is greater than dest_offset ends the call with CorruptData, and the
\* step that decodes it writes no output byte at or after dest_offset.
C10_FarOffsetRejected ==
    [][(pc \in {"sequence", "safe"} /\ ev'.kind = "match"
            /\ ev'.offset > ev'.at) =>
        /\ pc' = "done"
        /\ result' = Ended(ERR_CORRUPT)
        /\ dest_offset' = ev'.at
        /\ \A i \in ev'.at .. Max(Len(out_block.bytes),
                                  Len(out_block'.bytes)) :
              OutGet(out_block', i) = OutGet(out_block, i)]_vars

\* a match that reaches behind the start of the output, in the second
\* block of a stream, was refused
C10_Witness ==
    /\ ev.kind = "match"
    /\ ev.offset > ev.at
    /\ ev.at > 0
    /\ blocks_read = 2
    /\ result = Ended(ERR_CORRUPT)

-----------------------------------------------------------------------------
(* Properties of the copies, of the returned vector and of the order of      *)
(* the blocks                                                                *)

\* the step decodes a match and goes on: the match was accepted
MatchAccepted ==
    /\ pc \in {"sequence", "safe"}
    /\ ev'.kind = "match"
    /\ ev'.offset <= ev'.at
    /\ result'.kind = "None"

\* C11: after an accepted match of length L and offset D at position p, in
\* either loop and in every branch of the copy, out[p+i] = out[p+i-D] for
\* all i < L (for i >= D the byte this match wrote), the bytes below the
\* write cursor of before are unchanged, and dest_offset = p + L.
C11_MatchCopied ==
    [][MatchAccepted =>
        /\ dest_offset' = ev'.at + ev'.len
        /\ \A i \in 0..(ev'.len - 1) :
              OutGet(out_block', ev'.at + i)
                = OutGet(out_block', ev'.at + i - ev'.offset)
        /\ \A i \in 0..(dest_offset - 1) :
              OutGet(out_block', i) = OutGet(out_block, i)]_vars

\* the fast loop has copied a match that overlaps its source, with a
\* source byte that is not zero
C11_Witness ==
    /\ ev.kind = "match"
    /\ ev.loop = "fast"
    /\ ev.offset > 1
    /\ ev.offset < ev.len
    /\ dest_offset = ev.at + ev.len
    /\ OutGet(out_block, ev.at + ev.len - 1) # 0

\* the step is the end of start_deflate_block, past line 625
Finishes == pc = "finish" /\ result'.err # PANIC_OVERFLOW

\* C12: the vector at the end of the call is the first dest_offset bytes of
\* the output buffer, dest_offset being the number of bytes decoded (one per
\* literal, L per match): on success the returned vector has exactly that
\* length and holds none of the slack; for the accepted input it is the 24
\* literals of the block.
C12_ReturnedLength ==
    [][Finishes =>
        /\ out_block'.len = dest_offset
        /\ out_block'.bytes = OutSlice(out_block, 0, dest_offset)
        /\ result'.kind = "Ok" =>
              /\ result'.out = out_block'.bytes
              /\ Len(result'.out) = dest_offset
              /\ data = SelfCheckedZlib => result'.out = PlainSelfChecked]_vars

\* a call has returned Ok with a vector shorter than the buffer it decoded
\* into
C12_Witness ==
    /\ result.kind = "Ok"
    /\ Len(result.out) = dest_offset
    /\ dest_offset > 0
    /\ dest_offset < OUT_INITIAL_LEN

\* the index of the first byte after the DEFLATE stream of a zlib input
StreamEnd(h, raw) == Len(h) + Len(raw)

\* C13: in decode_zlib the four bytes compared with the Adler-32 of the
\* output start right after the last byte of the DEFLATE stream: for a zlib
\* stream they are its trailer, and for the accepted input they are not
\* bytes of the compressed data.
C13_TrailerCompared ==
    /\ \A h \in GoodHeaders, r \in ValidRaw :
          (api = "zlib" /\ data = Zlib(h, r) /\ ev.kind = "finish")
              => ev.at = StreamEnd(h, r.raw)
    /\ (api = "zlib" /\ data = SelfCheckedZlib /\ ev.kind = "finish")
          => ev.at = StreamEnd(<<120, 1>>, RawSelfChecked)

\* the BFINAL bits of the blocks of the streams of the corpus, in order
Finals(raw) ==
    IF raw \in {RawThreeBlocks, RawDynamicThenStatics}
    THEN <<FALSE, FALSE, TRUE>>
    ELSE IF raw \in {RawTwoStatic, RawTwoBlockMatch, RawStoredThenStatic}
    THEN <<FALSE, TRUE>>
    ELSE <<TRUE>>

InBlock == pc \in {"sequence", "safe"}

\* C14: blocks are decoded one after the other: a header is read only at
\* the start and after a block with BFINAL = 0 has ended; while a block is
\* decoded is_last_block keeps the BFINAL bit of its header; a block with
\* BFINAL = 0 that ends is followed by the next header, the first block
\* with BFINAL = 1 that ends is followed by the end of the call, and no
\* header is read after it.
C14_BlocksInOrder ==
    [][/\ (pc # "done" /\ blocks_read' # blocks_read) =>
            /\ pc = "block"
            /\ blocks_read' = blocks_read + 1
            /\ blocks_read > 0 => ~is_last_block
       /\ InBlock => is_last_block' = is_last_block
       /\ (InBlock /\ pc' = "block") => ~is_last_block
       /\ (InBlock /\ pc' = "finish") => is_last_block
       /\ (InBlock /\ ev'.kind = "eob" /\ result'.kind = "None") =>
            pc' = IF is_last_block THEN "finish" ELSE "block"
       /\ pc = "finish" =>
            /\ blocks_read' = blocks_read
            /\ is_last_block' = is_last_block
            /\ pc' = "done"
       /\ \A r \in ValidRaw :
            (data \in {r.raw, Padded(r.raw)} /\ api = "deflate"
               /\ position = 0 /\ pc = "block") =>
              /\ blocks_read' <= Len(Finals(r.raw))
              /\ is_last_block' = Finals(r.raw)[blocks_read']]_vars

\* the third block of a stream, the first one with BFINAL = 1, has ended
\* and the call is at its end
C14_Witness ==
    /\ blocks_read = 3
    /\ is_last_block
    /\ pc = "finish"
    /\ ev.kind = "eob"

ReservedSymbolInputs ==
    ReservedLitlenRaw \cup ReservedOffsetRaw
    \cup { Padded(b) : b \in ReservedLitlenRaw \cup ReservedOffsetRaw }

\* C15: a litlen symbol 286 or 287, or an offset symbol 30 or 31, in a
\* Huffman block is not decoded as a literal or a match: the call ends with
\* CorruptData.
C15_ReservedSymbolRejected ==
    (api = "deflate" /\ data \in ReservedSymbolInputs) =>
        /\ ev.kind = "match" => result = Ended(ERR_CORRUPT)
        /\ pc = "done" => result = Ended(ERR_CORRUPT)

-----------------------------------------------------------------------------
(* Properties of build_decode_table_inner *)

UsedSyms(l) == { s \in 1..Len(l) : l[s] > 0 }

\* the codespace the lengths use, in units of 2^-15
CodespaceOf(l) ==
    SumOver([s \in 1..Len(l) |->
                IF l[s] > 0 THEN Pow2(DEFLATE_MAX_CODEWORD_LENGTH - l[s]) ELSE 0],
            1, Len(l))

CompleteCode(l) == CodespaceOf(l) = Pow2(DEFLATE_MAX_CODEWORD_LENGTH)

EmptyCode(l) == UsedSyms(l) = {}

SingleSymbolCode(l) == \E s \in 1..Len(l) : UsedSyms(l) = {s} /\ l[s] = 1

InnerResults ==
    IF inner_code = "precode" THEN PRECODE_DECODE_RESULTS
    ELSE OFFSET_DECODE_RESULTS

\* every slot of the table built holds the length-1 entry of symbol sym
FilledWith(sym) ==
    \A j \in DOMAIN inner_table :
        inner_table[j] = make_decode_table_entry(InnerResults, sym, 1)

\* C16: build_decode_table_inner accepts the lengths exactly when the code
\* is complete, or empty, or has exactly one used symbol, of length 1, and
\* rejects all other lengths with an error; for an empty code every slot of
\* the table is the length-1 entry of symbol 0, and for a single-symbol
\* code the length-1 entry of that symbol.
C16_AcceptedCodes ==
    inner_code # "none" =>
        /\ inner_st = "Ok" <=>
              \/ CompleteCode(inner_lens)
              \/ EmptyCode(inner_lens)
              \/ SingleSymbolCode(inner_lens)
        /\ EmptyCode(inner_lens) => FilledWith(0)
        /\ \A s \in 1..Len(inner_lens) :
              (UsedSyms(inner_lens) = {s} /\ inner_lens[s] = 1)
                  => FilledWith(s - 1)

\* u comes before s in the order of the canonical code: shorter codewords
\* first, symbols of one length by their value
Precedes(l, u, s) == l[u] > 0 /\ (l[u] < l[s] \/ (l[u] = l[s] /\ u < s))

\* the canonical codeword of the used symbol s, as a number of l[s] bits
CanonicalCodeword(l, s) ==
    SumOver([u \in 1..Len(l) |->
                IF Precedes(l, u, s) THEN Pow2(l[s] - l[u]) ELSE 0],
            1, Len(l))

\* the n bits of c in the opposite order
BitReversed(c, n) ==
    SumOver([k \in 1..n |-> ((c \div Pow2(k - 1)) % 2) * Pow2(n - k)], 1, n)

\* the used symbols whose bit-reversed codeword is the low bits of x
SymbolsAt(l, x) ==
    { s \in UsedSyms(l) :
        BitReversed(CanonicalCodeword(l, s), l[s]) = x % Pow2(l[s]) }

InnerTableBits ==
    IF inner_code = "precode" THEN PRECODE_TABLE_BITS ELSE OFFSET_TABLEBITS

\* C20: for a complete code whose lengths are all at most table_bits,
\* build_decode_table_inner returns Ok and every index x below
\* 2^table_bits holds the entry of the one symbol whose bit-reversed
\* canonical codeword is the low len(s) bits of x, made from the symbol's
\* decode result with len(s) as its bits to consume; also when the longest
\* length is below table_bits and the shortest above 1.
C20_PrimaryEntries ==
    (inner_code # "none" /\ CompleteCode(inner_lens)) =>
        /\ inner_st = "Ok"
        /\ \A x \in 0..(Pow2(InnerTableBits) - 1) :
              \E s \in UsedSyms(inner_lens) :
                  /\ SymbolsAt(inner_lens, x) = {s}
                  /\ inner_table[x + 1]
                       = make_decode_table_entry(InnerResults, s - 1,
                                                 inner_lens[s])

\* the table of a complete code whose shortest codeword has 2 bits and
\* whose longest has fewer than table_bits has been built
C20_Witness ==
    /\ inner_code = "offset"
    /\ inner_st = "Ok"
    /\ CompleteCode(inner_lens)
    /\ \A s \in UsedSyms(inner_lens) : inner_lens[s] > 1
    /\ inner_table[2] # inner_table[1]

-----------------------------------------------------------------------------
(* Properties of the header of a dynamic block *)

\* C17: a repeat item (presym 16, 17 or 18) whose count runs past the
\* litlen_count + offset_count lengths of the block ends the call with
\* CorruptData: the symbols of such a block are never decoded.
C17_RepeatOverrunRejected ==
    (api = "deflate" /\ position = 0
       /\ data \in DynamicOverrunRaw \cup { Padded(b) : b \in DynamicOverrunRaw })
        => /\ ~InBlock
           /\ pc = "done" => result = Ended(ERR_CORRUPT)

\* the call is at the head of its first block, which is a dynamic block
AtDynamicHeader ==
    /\ pc = "block"
    /\ blocks_read = 0
    /\ has(stream, 3)
    /\ get_bits(get_bits(stream, 1).s, 2).v = DEFLATE_BLOCKTYPE_DYNAMIC_HUFFMAN

\* the header of that block as the decoder reads it
DynamicHeaderRead == ReadDynamicHeader(get_bits(get_bits(stream, 1).s, 2).s)

\* the bits of the input from the first block on
BlockBits == BytesToBits(SubSeq(data, position + 1, Len(data)))

\* HLIT, HDIST, HCLEN and the k-th 3-bit precode length of those bits
HLIT(bits) == BitsValFrom(bits, 4, 8)

HDIST(bits) == BitsValFrom(bits, 9, 13)

HCLEN(bits) == BitsValFrom(bits, 14, 17)

PrecodeLenAt(bits, k) == BitsValFrom(bits, 15 + 3 * k, 17 + 3 * k)

\* the counts and the precode lengths of h are those of the bits
CountsRead(h, bits) ==
    /\ h.num_litlen_syms = 257 + HLIT(bits)
    /\ h.num_offset_syms = 1 + HDIST(bits)
    /\ \A k \in 1..DEFLATE_NUM_PRECODE_SYMS :
          h.precode_lens[DEFLATE_PRECODE_LENS_PERMUTATION[k] + 1]
            = IF k <= 4 + HCLEN(bits) THEN PrecodeLenAt(bits, k) ELSE 0

CountsInRange(h, bits) ==
    /\ h.num_litlen_syms \in 257..286
    /\ h.num_offset_syms \in 1..30
    /\ 4 + HCLEN(bits) \in 4..19

\* C18: in a dynamic block whose header is read, the litlen count is
\* 257 + HLIT and lies in 257..286, the offset count is 1 + HDIST and lies
\* in 1..30, the precode count is 4 + HCLEN and lies in 4..19, and the
\* 3-bit precode lengths are stored at the positions 16, 17, 18, 0, 8, ...
\* in the order read, the positions not read being 0.
C18_DynamicCounts ==
    (AtDynamicHeader /\ DynamicHeaderRead.st = "Ok") =>
        /\ CountsRead(DynamicHeaderRead, BlockBits)
        /\ CountsInRange(DynamicHeaderRead, BlockBits)

-----------------------------------------------------------------------------
(* Properties of the tables kept between blocks and calls *)

FixedTables ==
    /\ litlen_decode_table = StaticLitlenTable.t
    /\ offset_decode_table = StaticOffsetTable.t

\* C19: over the blocks of a call and over the calls on a decoder, the
\* symbols of a static block are decoded with the tables of the fixed code,
\* and static_codes_loaded is set only while the tables of the decoder are
\* those tables.
C19_StaticTablesKept ==
    /\ (InBlock /\ block_type = DEFLATE_BLOCKTYPE_STATIC) => FixedTables
    /\ static_codes_loaded => FixedTables

-----------------------------------------------------------------------------
(* Properties of the subtables *)

SubtableTableBits ==
    IF inner_code = "litlen" THEN LITLEN_TABLE_BITS ELSE OFFSET_TABLEBITS

SubtableResults ==
    IF inner_code = "litlen" THEN LITLEN_DECODE_RESULTS
    ELSE OFFSET_DECODE_RESULTS

\* the bit-reversed canonical codeword of the used symbol s
Reversed(l, s) == BitReversed(CanonicalCodeword(l, s), l[s])

\* the symbols whose codewords are longer than the primary index
LongSyms(l, tb) == { s \in UsedSyms(l) : l[s] > tb }

\* those of them whose codeword starts with the tb bits p
SubtableSyms(l, tb, p) == { s \in LongSyms(l, tb) : Reversed(l, s) % Pow2(tb) = p }

\* the prefixes of tb bits that codewords longer than tb share
LongPrefixSet(l, tb) == { Reversed(l, s) % Pow2(tb) : s \in LongSyms(l, tb) }

\* the bits the longest codeword with the prefix p has beyond the prefix
SubtableBits(l, tb, p) ==
    CHOOSE n \in 1..DEFLATE_MAX_CODEWORD_LENGTH :
        /\ \E s \in SubtableSyms(l, tb, p) : l[s] - tb = n
        /\ \A s \in SubtableSyms(l, tb, p) : l[s] - tb <= n

\* e points to a subtable of the given width behind a primary index of tb bits
PointerEntry(e, tb, bits) ==
    /\ HasFlag(e, HUFFDEC_EXCEPTIONAL)
    /\ HasFlag(e, HUFFDEC_SUITABLE_POINTER)
    /\ AsU8(e) = tb
    /\ Shr(e, 8) % 64 = bits

\* slot start + y of t holds the entry of the one symbol with the prefix p
\* whose remaining bits are the low bits of y
SubtableSlot(l, tb, t, results, p, start, y) ==
    \E s \in SubtableSyms(l, tb, p) :
        /\ { u \in SubtableSyms(l, tb, p) :
                Shr(Reversed(l, u), tb) = y % Pow2(l[u] - tb) } = {s}
        /\ start + y < Len(t)
        /\ t[start + y + 1] = make_decode_table_entry(results, s - 1, l[s] - tb)

\* the slots start .. start + 2^bits - 1
SubtableRange(start, bits) == start..(start + Pow2(bits) - 1)

\* the subtable of the prefix p is as the pointer at p says
SubtableAt(l, tb, t, results, p) ==
    /\ PointerEntry(t[p + 1], tb, SubtableBits(l, tb, p))
    /\ Shr(t[p + 1], 16) >= Pow2(tb)
    /\ \A y \in 0..(Pow2(SubtableBits(l, tb, p)) - 1) :
          SubtableSlot(l, tb, t, results, p, Shr(t[p + 1], 16), y)
    /\ \A q \in LongPrefixSet(l, tb) \ {p} :
          SubtableRange(Shr(t[p + 1], 16), SubtableBits(l, tb, p))
              \cap SubtableRange(Shr(t[q + 1], 16), SubtableBits(l, tb, q)) = {}

\* C21: after a successful build of a complete code with codewords longer
\* than table_bits, every prefix of table_bits bits that such codewords share
\* has a pointer entry in the primary block (EXCEPTIONAL | SUITABLE_POINTER,
\* table_bits to consume, the subtable's width and its start); the subtable
\* has 2^width slots behind the primary block, each holding the entry of the
\* symbol whose codeword has the prefix and continues with the low bits of
\* the slot's number, made with len - table_bits as its bits to consume; no
\* two subtables overlap.
C21_Subtables ==
    (inner_code # "none" /\ inner_st = "Ok" /\ CompleteCode(inner_lens)) =>
        \A p \in LongPrefixSet(inner_lens, SubtableTableBits) :
            SubtableAt(inner_lens, SubtableTableBits, inner_table,
                       SubtableResults, p)

\* a litlen table was built with two subtables, and one with a subtable
\* that had to grow to take the codewords one bit longer
C21_Witness ==
    /\ inner_code = "litlen"
    /\ inner_st = "Ok"
    /\ CompleteCode(inner_lens)
    /\ \E p \in LongPrefixSet(inner_lens, LITLEN_TABLE_BITS) :
          \E s, u \in SubtableSyms(inner_lens, LITLEN_TABLE_BITS, p) :
              inner_lens[s] < inner_lens[u]

\* a table was built with more than one subtable
TwoSubtablesBuilt ==
    /\ inner_st = "Ok"
    /\ CompleteCode(inner_lens)
    /\ Cardinality(LongPrefixSet(inner_lens, SubtableTableBits)) > 1

\* the pointer entries of the primary block of the table built
PointerSlots ==
    { p \in 0..(Pow2(SubtableTableBits) - 1) :
        HasFlag(inner_table[p + 1], HUFFDEC_SUITABLE_POINTER) }

\* the width of the subtable the pointer entry e points to
PointerBits(e) == Shr(e, 8) % 64

\* C22: build_decode_table_inner never reads len_counts above index 15,
\* neither while a subtable grows nor while it advances to the next codeword
\* length (the read would abort the call), and in a table it returns as
\* built table_bits + subtable_bits is at most 15 for every subtable: a
\* subtable that would grow past that ends the build with CorruptData.
C22_SubtableLimit ==
    inner_code # "none" =>
        /\ inner_st \in {"Ok", ERR_OVERFLOWN, ERR_EMPTY_PRECODE, ERR_CORRUPT}
        /\ inner_st = "Ok" =>
              \A p \in PointerSlots :
                  SubtableTableBits + PointerBits(inner_table[p + 1])
                      <= SUBTABLE_LIMIT

\* a table was built whose subtable grew to table_bits + subtable_bits = 15
C22_Witness ==
    /\ inner_code = "offset"
    /\ inner_st = "Ok"
    /\ \E p \in PointerSlots :
          /\ OFFSET_TABLEBITS + PointerBits(inner_table[p + 1]) = SUBTABLE_LIMIT
          /\ \E s \in SubtableSyms(inner_lens, OFFSET_TABLEBITS, p) :
                inner_lens[s] < DEFLATE_MAX_CODEWORD_LENGTH

\* the bits of the primary index of the table built
BuiltTableBits ==
    IF inner_code = "precode" THEN PRECODE_TABLE_BITS ELSE SubtableTableBits

\* the primary indices a loop can read: peek_bits::<table_bits>()
PrimaryIndices == 0..(Pow2(BuiltTableBits) - 1)

\* the entries of the primary block that send a loop to a subtable: the fast
\* loop takes EXCEPTIONAL without END_OF_BLOCK, the safe loop SUITABLE_POINTER
SubtablePointers ==
    { p \in PrimaryIndices :
        \/ HasFlag(inner_table[p + 1], HUFFDEC_SUITABLE_POINTER)
        \/ /\ HasFlag(inner_table[p + 1], HUFFDEC_EXCEPTIONAL)
           /\ ~HasFlag(inner_table[p + 1], HUFFDEC_END_OF_BLOCK) }

\* the index read behind the pointer entry e with the peeked bits y: the
\* offset table's index is masked with 511
SubtableIndex(e, y) ==
    IF inner_code = "offset"
    THEN (Shr(e, 16) + y) % (OFFSET_SUBTABLE_MASK + 1)
    ELSE Shr(e, 16) + y

\* the indices a loop can read in the table built
ReadIndices ==
    PrimaryIndices
      \cup UNION { { SubtableIndex(inner_table[p + 1], y) :
                         y \in 0..(Pow2(PointerBits(inner_table[p + 1])) - 1) } :
                     p \in SubtablePointers }

\* C26: build_decode_table_inner never writes the decode table at or past
\* its fixed size (the write would abort the call), and in a table it returns
\* as built every index a loop can read, a primary index or the start of a
\* subtable plus the bits peeked for it, is below that size and holds an
\* entry the build wrote (the table is all 0 before the build and no entry
\* written is 0).
C26_TableIndices ==
    inner_code # "none" =>
        /\ inner_st # PANIC_INDEX
        /\ inner_st = "Ok" =>
              \A x \in ReadIndices :
                  /\ x < Len(inner_table)
                  /\ inner_table[x + 1] # 0

\* a table was built with a subtable that lies behind another subtable
C26_Witness ==
    /\ inner_code = "litlen"
    /\ inner_st = "Ok"
    /\ \E p, q \in SubtablePointers :
          /\ Shr(inner_table[p + 1], 16) = Pow2(LITLEN_TABLE_BITS)
          /\ Shr(inner_table[q + 1], 16) > Shr(inner_table[p + 1], 16)
          /\ Shr(inner_table[q + 1], 16) + Pow2(PointerBits(inner_table[q + 1]))
                <= LITLEN_ENOUGH

-----------------------------------------------------------------------------
(* Properties of the symbol loops *)

\* the next symbol is about to be decoded: the head of the block loop, of the
\* fast loop or of the safe loop
AtSymbol == pc \in {"block", "sequence", "safe"}

\* C23: wherever the next symbol is about to be decoded (after a literal,
\* after a match, between two blocks) the output vector has at least
\* FASTCOPY_BITS = 16 elements beyond the write cursor:
\* out_block.len() - dest_offset >= 16.
C23_SlackKept ==
    AtSymbol => out_block.len - dest_offset >= FASTCOPY_BITS

\* C24: an iteration of the safe loop drops n bits only where has(n) held
\* just before, for the primary litlen entry, the entry of a litlen subtable,
\* the 8 bits of an offset subtable pointer and the offset entry: it never
\* drops more bits than the reader holds (no overflow of bits_left, which
\* aborts a build with overflow checks and wraps in one without), and where
\* bits are missing it returns InsufficientData.
C24_SafeDropsChecked ==
    [][pc = "safe" =>
          /\ result'.err # PANIC_OVERFLOW
          /\ stream'.bits_left <= refill(stream).bits_left]_vars

\* the reader behind the header of the block that starts at the head of the
\* block loop, as the head of 'decode finds it
ReaderAfterHeader ==
    IF get_bits(get_bits(stream, 1).s, 2).v = DEFLATE_BLOCKTYPE_DYNAMIC_HUFFMAN
    THEN DynamicHeaderRead.s
    ELSE get_bits(get_bits(stream, 1).s, 2).s

\* an iteration of the fast loop is about to decode: the test at its head
\* does not leave the loop
FastIterationStarts ==
    pc = "sequence" /\ ~(2 * FASTCOPY_BITS > remaining_bytes(stream))

\* C25 as stated: an iteration of the fast loop starts only while more
\* than 3 * FASTCOPY_BITS = 48 bytes of input remain.
C25_FastOnlyAbove48 ==
    FastIterationStarts => remaining_bytes(stream) > 3 * FASTCOPY_BITS

\* C25: in a Huffman block the fast loop is entered only while more than
\* 3 * FASTCOPY_BITS = 48 bytes of input remain, else the safe loop is; an
\* iteration of the fast loop decodes only while at least
\* 2 * FASTCOPY_BITS = 32 bytes remain, else it hands over to the safe loop
\* without reading anything; and the safe loop never goes back to the fast
\* loop.
C25_FastLoopWindow ==
    [][/\ (pc = "block" /\ pc' = "sequence") =>
              remaining_bytes(ReaderAfterHeader) > 3 * FASTCOPY_BITS
       /\ (pc = "block" /\ pc' = "safe") =>
              remaining_bytes(ReaderAfterHeader) <= 3 * FASTCOPY_BITS
       /\ (pc = "sequence" /\ ~FastIterationStarts) =>
              /\ pc' = "safe"
              /\ UNCHANGED <<stream, out_block, dest_offset>>
       /\ (pc = "sequence" /\ ev'.loop = "fast") =>
              remaining_bytes(stream) >= 2 * FASTCOPY_BITS
       /\ pc = "safe" => pc' # "sequence"]_vars

\* the fast loop is about to decode a symbol with no more than 48 bytes left
C25_Witness ==
    /\ FastIterationStarts
    /\ remaining_bytes(stream) <= 3 * FASTCOPY_BITS
    /\ ev.loop = "fast"

\* the bits an iteration of the fast loop drops after its refill
FastBitsDropped == refill(stream).bits_left - stream'.bits_left

\* C27: an iteration of the fast loop (a fast literal, then a litlen entry
\* that may lie in a subtable, with its extra length bits, then an offset
\* entry that may lie in a subtable, with its extra offset bits) drops at most
\* the 56 bits refill guarantees: no drop takes more bits than are left, and
\* bits_left is never above what the refill left.
C27_FastDropsFit ==
    [][FastIterationStarts =>
          /\ result'.err # PANIC_OVERFLOW
          /\ stream'.bits_left <= refill(stream).bits_left
          /\ pc' # "done" => FastBitsDropped <= 56]_vars

\* the step copies a match in the fast loop
FastMatchCopied == pc = "sequence" /\ MatchAccepted /\ ev'.loop = "fast"

\* the match is copied by the branch for a source that ends FASTCOPY bytes
\* or more below dest_offset
NonOverlapping(len, off, dest) ==
    off # 1 /\ (dest - off) + len + FASTCOPY_BITS <= dest

\* the offset from dest_offset up to which the copies of a match write: the
\* unconditional copy, then the loop of the branch taken
FastWritten(len, off, dest) ==
    IF off = 1 THEN Max(FASTCOPY_BITS, RleLoop(len, 0))
    ELSE IF ~NonOverlapping(len, off, dest) THEN Max(FASTCOPY_BITS, len)
    ELSE IF len > FASTCOPY_BITS THEN MatchLengthsLoop(len, FASTCOPY_BITS)
    ELSE FASTCOPY_BITS

\* the loops written out agree with the lengths the copies of the model take,
\* for every length of a match, and stay within length + FASTCOPY
CopyLoopsBounded ==
    \A l \in 3..258 :
        /\ RleLoop(l, 0) = RleLen(l)
        /\ RleLoop(l, 0) <= l + FASTCOPY_BITS
        /\ l > FASTCOPY_BITS =>
              /\ MatchLengthsLoop(l, FASTCOPY_BITS) = ChunkedLen(l)
              /\ MatchLengthsLoop(l, FASTCOPY_BITS) <= l + FASTCOPY_BITS

\* C28: for a match copied in the fast loop, the unconditional 16-byte copy,
\* the 8-byte strides of the RLE loop and the 16-byte chunks write only below
\* dest_offset + length + FASTCOPY and below out_block.len() (no element at
\* or above the end of the copies changes), and in the non-overlapping
\* branch every byte read as source lies below dest_offset.
C28_FastCopyBounds ==
    [][FastMatchCopied =>
          /\ CopyLoopsBounded
          /\ FastWritten(ev'.len, ev'.offset, ev'.at) <= ev'.len + FASTCOPY_BITS
          /\ ev'.at + FastWritten(ev'.len, ev'.offset, ev'.at) <= out_block'.len
          /\ \A i \in (ev'.at + FastWritten(ev'.len, ev'.offset, ev'.at))
                         .. Max(Len(out_block.bytes), Len(out_block'.bytes)) :
                OutGet(out_block', i) = OutGet(out_block, i)
          /\ NonOverlapping(ev'.len, ev'.offset, ev'.at) =>
                (ev'.at - ev'.offset)
                    + FastWritten(ev'.len, ev'.offset, ev'.at) <= ev'.at]_vars

\* a match was copied in the fast loop for which the vector had to grow
C28_Witness ==
    /\ ev.kind = "match"
    /\ ev.loop = "fast"
    /\ result.kind = "None"
    /\ ev.at + ev.len + FASTCOPY_BITS > OUT_INITIAL_LEN
    /\ out_block.len = OUT_INITIAL_LEN + RESIZE_BY + ev.len

\* a match longer than FASTCOPY was copied in the fast loop by the chunks of
\* the non-overlapping branch
ChunkedCopyDone ==
    /\ ev.kind = "match"
    /\ ev.loop = "fast"
    /\ result.kind = "None"
    /\ ev.len > FASTCOPY_BITS
    /\ NonOverlapping(ev.len, ev.offset, ev.at)

-----------------------------------------------------------------------------
(* Termination of a call.                                                    *)

\* the input bits the reader s has dropped: the bits loaded less those left
Consumed(s) == 8 * s.position - s.bits_left

\* the call is in an iteration of the block loop or of a symbol loop
InLoop == pc \in {"block", "sequence", "safe"}

\* the step dropped at least one bit; where bits_left wrapped (C24, C27) the
\* count of the bits left went up by 256 less the bits dropped
BitsWereConsumed ==
    \/ Consumed(stream') > Consumed(stream)
    \/ /\ build' = "release"
       /\ stream'.bits_left > refill(stream).bits_left
       /\ Consumed(stream') + U8_MOD > Consumed(stream)

\* the step left its loop: the call returned or aborted, the blocks are
\* over, or the fast loop handed over to the safe loop
LoopEnded ==
    \/ pc' \in {"done", "finish"}
    \/ pc = "sequence" /\ pc' = "safe"

\* the entry e sends a loop to a subtable
IsSubtablePointer(e) ==
    \/ HasFlag(e, HUFFDEC_SUITABLE_POINTER)
    \/ HasFlag(e, HUFFDEC_EXCEPTIONAL) /\ ~HasFlag(e, HUFFDEC_END_OF_BLOCK)

\* the index read behind the pointer entry e of the table of the code named
\* with the peeked bits y
PointedIndex(code, e, y) ==
    IF code = "offset"
    THEN (Shr(e, 16) + y) % (OFFSET_SUBTABLE_MASK + 1)
    ELSE Shr(e, 16) + y

\* the entries of table t a loop can look up: those of the primary block of
\* table_bits bits and those behind its subtable pointers
LookedUp(code, t, table_bits) ==
    { t[x + 1] : x \in 0..(Pow2(table_bits) - 1) }
      \cup UNION { { Lookup(t, PointedIndex(code, t[p + 1], y)) :
                         y \in 0..(Pow2(PointerBits(t[p + 1])) - 1) } :
                     p \in { x \in 0..(Pow2(table_bits) - 1) :
                               IsSubtablePointer(t[x + 1]) } }

\* drop_bits(entry as u8) drops at least one bit for every entry the symbol
\* loops can look up (an index outside the table is no entry)
NoZeroBitEntry ==
    /\ \A e \in LookedUp("litlen", litlen_decode_table, LITLEN_TABLE_BITS) :
          e >= 0 => AsU8(e) >= 1
    /\ \A e \in LookedUp("offset", offset_decode_table, OFFSET_TABLEBITS) :
          e >= 0 /\ ~IsSubtablePointer(e) => AsU8(e) >= 1

\* every iteration of the block loop, the fast loop and the safe loop drops
\* at least one bit or ends its loop, and the symbol loops look up no entry
\* of zero bits
LoopsAdvance ==
    [][InLoop =>
          /\ BitsWereConsumed \/ LoopEnded
          /\ pc \in {"sequence", "safe"} => NoZeroBitEntry]_vars

\* C29: every decode call ends by returning Ok or Err: each iteration of
\* the block loop (with the code-length loop and the table-building loops
\* of its header), of the fast loop and of the safe loop drops at least one
\* input bit or ends its loop, no entry the loops can look up drops zero
\* bits, and the call that ends has returned Ok or an Err value.
C29_CallsReturn ==
    [][/\ InLoop =>
             /\ BitsWereConsumed \/ LoopEnded
             /\ pc \in {"sequence", "safe"} => NoZeroBitEntry
       /\ pc' = "done" => result'.kind \in {"Ok", "Err"}]_vars

-----------------------------------------------------------------------------
(* Calls on a decoder that was used before.                                  *)

\* the step begins the call named on a decoder and enters the block loop
CallEntersBlocks(name) ==
    /\ calls' = calls + 1
    /\ api' = name
    /\ pc' = "block"

\* the tables of the decoder are the ones a call on a fresh decoder works
\* with: where static_codes_loaded says so, they hold the static codes
TablesAsLoaded ==
    static_codes_loaded' =>
        /\ litlen_decode_table' = StaticLitlenTable
        /\ offset_decode_table' = StaticOffsetTable

\* C30: whatever calls were made on the decoder before, a call to
\* decode_deflate reads its blocks from input byte 0 and a call to
\* decode_zlib from input byte 2, and both start with the tables a fresh
\* decoder would decode with, so that the call returns what it returns on a
\* fresh decoder.
C30_CallsStartAfresh ==
    [][/\ CallEntersBlocks("deflate") => stream'.src = 0
       /\ CallEntersBlocks("zlib") => stream'.src = ZLIB_MIN_LEN - ADLER_LEN
       /\ CallEntersBlocks("deflate") \/ CallEntersBlocks("zlib") =>
             TablesAsLoaded]_vars

\* decode_deflate returned Ok on a decoder whose decode_zlib had returned
\* before: it decoded from input byte 2
SecondCallFromTwo ==
    /\ calls = 2
    /\ api = "deflate"
    /\ pc = "done"
    /\ position = ZLIB_MIN_LEN - ADLER_LEN
    /\ result.kind = "Ok"

\* decode_deflate on a fresh decoder over an input that decode_zlib accepts:
\* it decodes from input byte 0 and does not return Ok
FirstCallFromZero ==
    /\ calls = 1
    /\ api = "deflate"
    /\ pc = "done"
    /\ Len(data) >= ZLIB_MIN_LEN
    /\ zlib_header(data) = "Ok"
    /\ result.kind # "Ok"

\* decode_deflate on a fresh decoder never returns Ok on an input that
\* starts with a zlib header
FreshDeflateOnZlib ==
    calls = 1 /\ api = "deflate" /\ pc = "done" /\ Len(data) >= ZLIB_MIN_LEN
        /\ zlib_header(data) = "Ok"
        => result.kind # "Ok"

====
